---- MODULE Spec2Model ----
(***************************************************************************)
(* Cigarette allocation platform (backend/): the MILP allocator with its    *)
(* two post-processing passes, the constraint manager's validators, the    *)
(* data loader's round-constraint cache and the HTTP session.               *)
(*                                                                         *)
(* Quantities are integers counted in ticks of 0.0001 box, one decimal      *)
(* finer than the three decimals _extract_solution rounds to, so that the  *)
(* rounding is a real conversion.  Prices are in yuan per box.             *)
(***************************************************************************)
EXTENDS Integers, Sequences, FiniteSets, TLC

VARIABLES
    rounds,             \* DataLoader.rounds: round numerals (第n轮) in canonical order
    product_data,       \* DataLoader.sheet1_data: one record per SKU
    sheet2,             \* DataLoader.sheet2_data: round label -> table record
    round_constraints,  \* DataLoader.round_constraints: the cache, round label -> record
    constraint_manager, \* current_session["constraint_manager"]
    constraint_config,  \* the constraint_config handed to solve
    objective_config,   \* the objective_config handed to solve
    lp_model,           \* allocator.model: the round bounds of its volume and price rows
    status,             \* result['status'] of solve
    var_values,         \* variables[r][idx].varValue: the values the solver left
    raw,                \* variable values rounded to three decimals (_extract_solution)
    allocation_matrix,  \* result['allocation_matrix'] (rounds columns only)
    validation,         \* the result of validate_all_constraints
    call,               \* the post-processing method called on raw by itself ("none" in solve)
    error,              \* the exception the last operation raised ("none" when it returned)
    result_data         \* the sheet1_data of the loader current_session["last_result"] was solved on

vars == <<rounds, product_data, sheet2, round_constraints, constraint_manager,
          constraint_config, objective_config, lp_model, status, var_values, raw,
          allocation_matrix, validation, call, error, result_data>>

----------------------------------------------------------------------------
(* Units and thresholds *)

\* ticks per 0.001 box: round(var_value, 3) keeps multiples of Milli
Milli == 10
\* ticks per box
Box == 1000 * Milli
\* min_threshold = 0.1 box of _handle_small_allocations
MinThreshold == 1000
\* tiny_threshold = 0.01 box of _handle_tiny_unallocated_demand
TinyThreshold == 100
\* validation slack 0.001 box of the validators
Slack == 10
\* denominator of volume_tolerance: 0.005 is 5 / TolDen
TolDen == 1000

\* a value that is None: a matrix, a manager, a model or a result not produced
None == <<>>

IsNone(v) == DOMAIN v = {}

\* an override map that is None or {}: both are false in "map and r in map"
NoMap == [r \in {} |-> 0]

\* a configuration that is None or {}
NoConfig == [k \in {} |-> 0]

----------------------------------------------------------------------------
(* Helpers *)

RECURSIVE SumSeq(_)
SumSeq(s) == IF s = <<>> THEN 0 ELSE Head(s) + SumSeq(Tail(s))

Min2(a, b) == IF a <= b THEN a ELSE b

Abs(a) == IF a >= 0 THEN a ELSE -a

\* the round labels of the data set, as a set
RoundSet == {rounds[i] : i \in 1..Len(rounds)}

\* position of a label in the canonical order
Pos(r) == CHOOSE i \in 1..Len(rounds) : rounds[i] = r

Products == 1..Len(product_data)

\* row total over the round columns: allocation_matrix[rounds].sum(axis=1)
RowSum(M, p) == SumSeq([i \in 1..Len(rounds) |-> M[p][rounds[i]]])

\* column total: allocation_matrix[round_name].sum()
ColSum(M, r) == SumSeq([p \in Products |-> M[p][r]])

\* max(d.keys(), key=...) over a dict kept in round order: the first round
\* of S holding the maximum
FirstMax(row, S) ==
    CHOOSE r \in S : /\ \A q \in S : row[q] <= row[r]
                     /\ \A q \in S : row[q] = row[r] => Pos(r) <= Pos(q)

\* list(d.keys())[0] over a dict kept in round order
FirstOf(S) == CHOOSE r \in S : \A q \in S : Pos(r) <= Pos(q)

----------------------------------------------------------------------------
(* DataLoader *)

\* 单箱价格 = 批发价 * 50000 / 条支比
\* (批发价 * 2500 when the sheet has no 条支比 column, written sticks = 0)
HasSticksColumn(p) == product_data[p].sticks > 0

UnitBoxPrice(p) ==
    IF ~HasSticksColumn(p)
    THEN product_data[p].wholesale * 2500
    ELSE (product_data[p].wholesale * 50000) \div product_data[p].sticks

\* get_existing_allocations: per round, the SKUs whose sheet value is > 0
ExistingAllocations(r) == {p \in Products : product_data[p].alloc[r] > 0}

\* float(cell) of the three cells of a table column returns: a cell that holds
\* text has no number, its field is absent from the record
Readable(rec) ==
    {"upper_price_limit", "lower_price_limit", "total_quantity"} \subseteq DOMAIN rec

\* _initialize_constraints_cache: the table records of the detected rounds;
\* a round whose record raises ValueError is logged and left out
InitialConstraintsCache(rs, table) ==
    [r \in {q \in {rs[i] : i \in 1..Len(rs)} : Readable(table[q])} |-> table[r]]

\* get_round_constraints on the cache rc returns (it raises ValueError when the
\* round is not cached and its table record cannot be read)
CanGetRoundConstraints(rc, r) == r \in DOMAIN rc \/ Readable(sheet2[r])

\* get_round_constraints on the cache rc: from the cache, else from the table
GetRoundConstraints(rc, r) ==
    IF r \in DOMAIN rc THEN rc[r] ELSE sheet2[r]

\* dict.get(key, default) on a configuration
Get(cfg, key, default) == IF key \in DOMAIN cfg THEN cfg[key] ELSE default

\* "cfg.get(key) and round_name in cfg[key]": the per-round override map is
\* given, not empty, and names r
HasMap(map, r) == DOMAIN map # {} /\ r \in DOMAIN map

HasOverride(cfg, key, r) == HasMap(Get(cfg, key, NoMap), r)

\* update_round_constraints: the cached record of round r after the overrides
\* of cfg are written into it
UpdatedRecord(rec, r, cfg) ==
    [upper_price_limit |-> IF HasOverride(cfg, "price_upper_limits", r)
                           THEN cfg.price_upper_limits[r] ELSE rec.upper_price_limit,
     lower_price_limit |-> IF HasOverride(cfg, "price_lower_limits", r)
                           THEN cfg.price_lower_limits[r] ELSE rec.lower_price_limit,
     total_quantity |-> IF HasOverride(cfg, "volume_limits", r)
                        THEN cfg.volume_limits[r] ELSE rec.total_quantity]

\* update_all_round_constraints: every cached round, in place
UpdateAllRoundConstraints(rc, cfg) ==
    [r \in DOMAIN rc |-> UpdatedRecord(rc[r], r, cfg)]

----------------------------------------------------------------------------
(* LinearProgrammingAllocator: variables and constraint families *)

\* constraint_config.get('volume_tolerance', 0.005), in 1/TolDen
VolumeTolerance(cfg) == Get(cfg, "volume_tolerance", 5)

\* total_quantity * (1 + tolerance) and total_quantity * (1 - tolerance), as the
\* largest and smallest whole tick counts within them
VolUpper(target, tol) == target + (target * tol) \div TolDen
VolLower(target, tol) == target - (target * tol) \div TolDen

\* create_variables: the cell is fixed when the SKU is in existing_allocations[r]
IsFixedVar(p, r) == p \in ExistingAllocations(r)

\* create_variables: round_name == '第一轮', the round capped by the supply
CappedBySupply(r) == r = 1

\* create_variables: min(demand, supply if round_name == '第一轮' else demand)
UpperBound(p, r) ==
    Min2(product_data[p].demand,
         IF CappedBySupply(r) THEN product_data[p].supply ELSE product_data[p].demand)

\* create_variables: lowBound/upBound of every decision variable
VarBoundsOK(x) ==
    \A p \in Products : \A r \in RoundSet :
        IF IsFixedVar(p, r)
        THEN x[p][r] = product_data[p].alloc[r]
        ELSE 0 <= x[p][r] /\ x[p][r] <= UpperBound(p, r)

\* the demand rows as upper limits: total <= demand
DemandConstraintsOKAtMost(x) ==
    \A p \in Products :
        product_data[p].demand > 0 => RowSum(x, p) <= product_data[p].demand

\* add_demand_constraints: total == demand for every SKU with demand > 0
DemandConstraintsOK(x) ==
    \A p \in Products :
        product_data[p].demand > 0 => RowSum(x, p) = product_data[p].demand

\* add_volume_constraints: the target of round r
VolumeTarget(rc, cfg, r) ==
    IF HasOverride(cfg, "volume_limits", r)
    THEN cfg.volume_limits[r]
    ELSE GetRoundConstraints(rc, r).total_quantity

\* add_volume_constraints: upper_limit and lower_limit of the rows
\* Volume_Upper_r and Volume_Lower_r; a round whose target cannot be read is
\* logged and gets no rows
VolumeRows(rc, cfg) ==
    [r \in {q \in RoundSet : HasOverride(cfg, "volume_limits", q)
                                \/ CanGetRoundConstraints(rc, q)} |->
        [upper_limit |-> VolUpper(VolumeTarget(rc, cfg, r), VolumeTolerance(cfg)),
         lower_limit |-> VolLower(VolumeTarget(rc, cfg, r), VolumeTolerance(cfg))]]

\* add_volume_constraints: lower_limit <= round total <= upper_limit
VolumeConstraintsOK(rc, x, cfg) ==
    \A r \in DOMAIN VolumeRows(rc, cfg) :
        /\ ColSum(x, r) <= VolumeRows(rc, cfg)[r].upper_limit
        /\ ColSum(x, r) >= VolumeRows(rc, cfg)[r].lower_limit

\* add_average_price_constraints: the price bounds of round r
PriceUpper(rc, cfg, r) ==
    IF HasOverride(cfg, "price_upper_limits", r)
    THEN cfg.price_upper_limits[r]
    ELSE GetRoundConstraints(rc, r).upper_price_limit

PriceLower(rc, cfg, r) ==
    IF HasOverride(cfg, "price_lower_limits", r)
    THEN cfg.price_lower_limits[r]
    ELSE GetRoundConstraints(rc, r).lower_price_limit

\* sum over SKUs of quantity * (unit box price - bound): total_sales - bound * total
SalesMinus(M, r, bound) ==
    SumSeq([p \in Products |-> M[p][r] * (UnitBoxPrice(p) - bound)])

\* add_average_price_constraints: the bounds of the rows Average_Price_Upper_r
\* and Average_Price_Lower_r; without a 条支比 column the KeyError is caught
\* and no round gets its rows, and a round whose record cannot be read is
\* logged and gets none
PriceRows(rc, cfg) ==
    IF \A p \in Products : HasSticksColumn(p)
    THEN [r \in {q \in RoundSet : CanGetRoundConstraints(rc, q)} |->
            [upper_price_limit |-> PriceUpper(rc, cfg, r),
             lower_price_limit |-> PriceLower(rc, cfg, r)]]
    ELSE NoMap

\* add_average_price_constraints: total_sales <= upper * total, >= lower * total
PriceConstraintsOK(rc, x, cfg) ==
    \A r \in DOMAIN PriceRows(rc, cfg) :
        /\ SalesMinus(x, r, PriceRows(rc, cfg)[r].upper_price_limit) <= 0
        /\ SalesMinus(x, r, PriceRows(rc, cfg)[r].lower_price_limit) >= 0

\* the is_existing test of add_demand_split_constraints, _add_product_level_balance
IsExisting(p) == \E r \in RoundSet : p \in ExistingAllocations(r)

RoundsUsed(x, p) == Cardinality({r \in RoundSet : x[p][r] > 0})

\* add_demand_split_constraints: x <= M*b, x >= 0.01*b, bounds on sum(b)
DemandSplitOK(x) ==
    \A p \in Products :
        (product_data[p].demand > 0 /\ ~IsExisting(p)) =>
            /\ \A r \in RoundSet :
                   x[p][r] = 0 \/ (x[p][r] >= Box \div 100 /\ x[p][r] \div Box < 1000000)
            /\ product_data[p].demand <= 100 * Box => RoundsUsed(x, p) <= 2
            /\ (product_data[p].demand > 100 * Box /\ product_data[p].demand <= 250 * Box)
                   => RoundsUsed(x, p) >= 2

\* _add_product_level_balance: the hard couplings x <= 10000*b, x >= 0.1*b
\* it adds to the model when the weight is positive
ProductBalanceOK(x, obj) ==
    (obj.product_balance_weight > 0 /\ Len(rounds) >= 2) =>
        \A p \in Products :
            (product_data[p].demand >= 50 * Box /\ ~IsExisting(p)) =>
                \A r \in RoundSet :
                    x[p][r] = 0 \/ (x[p][r] >= Box \div 10 /\ x[p][r] <= 10000 * Box)

\* total of the cells of the SKUs of S in round r
SumOver(M, S, r) == SumSeq([p \in Products |-> IF p \in S THEN M[p][r] ELSE 0])

\* the SKUs whose C column holds 'C'
CTypeIndices == {p \in Products : product_data[p].c}

\* the SKUs whose C类 column is 方 ("fang"), 长 ("chang") or 细 ("xi")
SubtypeIndices(t) == {p \in Products : product_data[p].c_class = t}

\* add_c_type_constraints: per round, C-type share and C-type volume
\* (ratios are kept in percent)
CTypeConstraintsOK(x, cfg) ==
    CTypeIndices # {} =>
        \A r \in RoundSet :
            /\ SumOver(x, CTypeIndices, r) * 100
                   <= Get(cfg, "c_type_ratio", 40) * ColSum(x, r)
            /\ SumOver(x, CTypeIndices, r) <= Get(cfg, "c_type_volume_limit", 4900) * Box

\* _add_c_subtype_constraints: 长 and 细 shares and volumes per round, and one
\* round only for the 方 SKUs that have no existing allocation
\* the subtype rows with Fang_Single_Round as "at least one round"
CSubtypeConstraintsOKSomeRounds(x, cfg) ==
    /\ SubtypeIndices("chang") # {} =>
          \A r \in RoundSet :
              /\ SumOver(x, SubtypeIndices("chang"), r) * 100
                     <= Get(cfg, "chang_type_ratio", 20) * SumOver(x, CTypeIndices, r)
              /\ SumOver(x, SubtypeIndices("chang"), r)
                     <= Get(cfg, "chang_type_volume_limit", 1000) * Box
    /\ SubtypeIndices("xi") # {} =>
          \A r \in RoundSet :
              /\ SumOver(x, SubtypeIndices("xi"), r) * 100
                     <= Get(cfg, "xi_type_ratio", 60) * SumOver(x, CTypeIndices, r)
              /\ SumOver(x, SubtypeIndices("xi"), r)
                     <= Get(cfg, "xi_type_volume_limit", 3000) * Box
    /\ LET non_existing_fang == {p \in SubtypeIndices("fang") : ~IsExisting(p)}
       IN  non_existing_fang # {} =>
             \E chosen \in SUBSET RoundSet : chosen # {} /\ \A r \in RoundSet :
                 IF r \in chosen
                 THEN SumOver(x, non_existing_fang, r) \div Box <= 1000000
                 ELSE SumOver(x, non_existing_fang, r) <= 0

CSubtypeConstraintsOK(x, cfg) ==
    /\ SubtypeIndices("chang") # {} =>
          \A r \in RoundSet :
              /\ SumOver(x, SubtypeIndices("chang"), r) * 100
                     <= Get(cfg, "chang_type_ratio", 20) * SumOver(x, CTypeIndices, r)
              /\ SumOver(x, SubtypeIndices("chang"), r)
                     <= Get(cfg, "chang_type_volume_limit", 1000) * Box
    /\ SubtypeIndices("xi") # {} =>
          \A r \in RoundSet :
              /\ SumOver(x, SubtypeIndices("xi"), r) * 100
                     <= Get(cfg, "xi_type_ratio", 60) * SumOver(x, CTypeIndices, r)
              /\ SumOver(x, SubtypeIndices("xi"), r)
                     <= Get(cfg, "xi_type_volume_limit", 3000) * Box
    /\ LET non_existing_fang == {p \in SubtypeIndices("fang") : ~IsExisting(p)}
       IN  non_existing_fang # {} =>
             \E chosen \in RoundSet : \A r \in RoundSet :
                 IF r = chosen
                 THEN SumOver(x, non_existing_fang, r) \div Box <= 1000000
                 ELSE SumOver(x, non_existing_fang, r) <= 0

\* the SKUs whose 按价 column holds 价
PriceBasedIndices == {p \in Products : product_data[p].by_price}

\* add_price_based_constraints: x <= M*b, x >= 1.0*b for every SKU, and the
\* priced SKUs are at least the ratio of the SKUs allocated in the round
PriceBasedConstraintsOK(x, cfg) ==
    PriceBasedIndices # {} =>
        \A r \in RoundSet :
            /\ \A p \in Products :
                   x[p][r] = 0 \/ (x[p][r] >= Box /\ x[p][r] \div Box <= 1000000)
            /\ Cardinality({p \in PriceBasedIndices : x[p][r] > 0}) * 100
                   >= Get(cfg, "price_based_ratio", 30)
                        * Cardinality({p \in Products : x[p][r] > 0})

\* solve: the constraints the model holds for a configuration (the 按需 and
\* balance families only add penalty variables)
Feasible(rc, x, cfg, obj) ==
    /\ VarBoundsOK(x)
    /\ Get(cfg, "enable_demand_constraints", TRUE) => DemandConstraintsOK(x)
    /\ Get(cfg, "enable_volume_constraints", TRUE) => VolumeConstraintsOK(rc, x, cfg)
    /\ Get(cfg, "enable_price_constraints", TRUE) => PriceConstraintsOK(rc, x, cfg)
    /\ Get(cfg, "enable_demand_split_constraints", TRUE) => DemandSplitOK(x)
    /\ Get(cfg, "enable_price_based_constraints", TRUE) => PriceBasedConstraintsOK(x, cfg)
    /\ Get(cfg, "enable_c_type_constraints", TRUE) =>
           (CTypeConstraintsOK(x, cfg) /\ CSubtypeConstraintsOK(x, cfg))
    /\ ProductBalanceOK(x, obj)

\* a certificate that the model has no solution: the bounds of the variables
\* exclude a demand row or a volume row, or the price rows of a round leave it
\* empty while a bound, a volume row or the demand row needs a quantity in it
ProvablyInfeasible(rc, cfg) ==
    LET lb(p, r) == IF IsFixedVar(p, r) THEN product_data[p].alloc[r] ELSE 0
        ub(p, r) == IF IsFixedVar(p, r) THEN product_data[p].alloc[r] ELSE UpperBound(p, r)
        row_lb(p) == SumSeq([i \in 1..Len(rounds) |-> lb(p, rounds[i])])
        row_ub(p) == SumSeq([i \in 1..Len(rounds) |-> ub(p, rounds[i])])
        col_lb(r) == SumSeq([p \in Products |-> lb(p, r)])
        col_ub(r) == SumSeq([p \in Products |-> ub(p, r)])
    IN  \/ /\ Get(cfg, "enable_demand_constraints", TRUE)
           /\ \E p \in Products :
                 /\ product_data[p].demand > 0
                 /\ row_lb(p) > product_data[p].demand \/ row_ub(p) < product_data[p].demand
        \/ /\ Get(cfg, "enable_volume_constraints", TRUE)
           /\ \E r \in DOMAIN VolumeRows(rc, cfg) :
                 \/ col_ub(r) < VolumeRows(rc, cfg)[r].lower_limit
                 \/ col_lb(r) > VolumeRows(rc, cfg)[r].upper_limit
        \/ /\ Get(cfg, "enable_price_constraints", TRUE)
           /\ \E r \in DOMAIN PriceRows(rc, cfg) :
                 /\ \/ \A p \in Products :
                          UnitBoxPrice(p) > PriceRows(rc, cfg)[r].upper_price_limit
                    \/ \A p \in Products :
                          UnitBoxPrice(p) < PriceRows(rc, cfg)[r].lower_price_limit
                 /\ \/ col_lb(r) > 0
                    \/ /\ Get(cfg, "enable_volume_constraints", TRUE)
                       /\ r \in DOMAIN VolumeRows(rc, cfg)
                       /\ VolumeRows(rc, cfg)[r].lower_limit > 0
                    \/ /\ Get(cfg, "enable_demand_constraints", TRUE)
                       /\ Len(rounds) = 1
                       /\ \E p \in Products : product_data[p].demand > 0

\* solve: the round bounds held by the volume and price rows of self.model
BuildModel(rc, cfg) ==
    [volume |-> IF Get(cfg, "enable_volume_constraints", TRUE)
                THEN VolumeRows(rc, cfg) ELSE NoMap,
     price |-> IF Get(cfg, "enable_price_constraints", TRUE)
               THEN PriceRows(rc, cfg) ELSE NoMap]

----------------------------------------------------------------------------
(* LinearProgrammingAllocator: extraction and post-processing *)

\* round(var_value, 3): to the nearest multiple of Milli
Round3(v) == ((v + Milli \div 2) \div Milli) * Milli

\* _extract_solution: every cell rounded to three decimals
ExtractRounded(x) == [p \in Products |-> [r \in RoundSet |-> Round3(x[p][r])]]

\* _handle_small_allocations, one SKU row
\* sum(small_allocations.values()) of binary64 cells: the sequences of cell
\* values (in ticks, round order, over the values the cells of the model take)
\* whose sum is 0.09999999999999999 although the decimals add up to 0.1
InexactTenth ==
    {<<100, 900>>, <<900, 100>>, <<400, 500, 100>>, <<500, 400, 100>>,
     <<100, 400, 400, 100>>, <<400, 100, 400, 100>>, <<400, 400, 100, 100>>}

\* total_small >= min_threshold, compared as the binary64 sum
ReachesThreshold(values) ==
    \/ SumSeq(values) > MinThreshold
    \/ SumSeq(values) = MinThreshold /\ values \notin InexactTenth

CoalesceRow(row) ==
    LET small == {r \in RoundSet : 0 < row[r] /\ row[r] < MinThreshold}
        large == {r \in RoundSet : row[r] >= MinThreshold}
        total_small == SumSeq([i \in 1..Len(rounds) |->
                                  IF rounds[i] \in small THEN row[rounds[i]] ELSE 0])
        small_values == SelectSeq([i \in 1..Len(rounds) |-> row[rounds[i]]],
                                  LAMBDA v : 0 < v /\ v < MinThreshold)
    IN  IF small # {} /\ large # {}
        THEN LET max_round == FirstMax(row, large)
             IN  [r \in RoundSet |->
                    IF r = max_round THEN row[r] + total_small
                    ELSE IF r \in small THEN 0 ELSE row[r]]
        ELSE IF small # {}
        THEN IF ReachesThreshold(small_values)
             THEN [r \in RoundSet |->
                    IF r = FirstOf(small) THEN total_small
                    ELSE IF r \in small THEN 0 ELSE row[r]]
             ELSE [r \in RoundSet |-> IF r \in small THEN 0 ELSE row[r]]
        ELSE row

\* _handle_small_allocations
HandleSmallAllocations(M) == [p \in Products |-> CoalesceRow(M[p])]

\* the guard of _handle_tiny_unallocated_demand on the unallocated amount
TinyGuard(unallocated) == unallocated <= TinyThreshold

\* _handle_tiny_unallocated_demand, one SKU row
AbsorbRow(p, row) ==
    LET demand == product_data[p].demand
        unallocated == demand - SumSeq([i \in 1..Len(rounds) |-> row[rounds[i]]])
        allocated_rounds == {r \in RoundSet : row[r] > 0}
    IN  IF demand <= 0 THEN row
        ELSE IF ~TinyGuard(unallocated) THEN row
        ELSE IF allocated_rounds # {}
        THEN LET max_round == FirstMax(row, allocated_rounds)
             IN  [r \in RoundSet |-> IF r = max_round THEN row[r] + unallocated ELSE row[r]]
        ELSE [r \in RoundSet |-> IF r = rounds[1] THEN unallocated ELSE row[r]]

\* _handle_tiny_unallocated_demand
HandleTinyUnallocatedDemand(M) == [p \in Products |-> AbsorbRow(p, M[p])]

\* _extract_solution after rounding: coalescing, then absorption
PostProcess(M) == HandleTinyUnallocatedDemand(HandleSmallAllocations(M))

----------------------------------------------------------------------------
(* ConstraintManager: parameters *)

\* _init_constraint_parameters: the attributes read from constraint_config
InitConstraintParameters(cfg) ==
    [volume_tolerance |-> Get(cfg, "volume_tolerance", 5),
     price_based_ratio |-> Get(cfg, "price_based_ratio", 30),
     c_type_ratio |-> Get(cfg, "c_type_ratio", 40),
     c_type_volume_limit |-> Get(cfg, "c_type_volume_limit", 4900),
     chang_type_ratio |-> Get(cfg, "chang_type_ratio", 20),
     chang_type_volume_limit |-> Get(cfg, "chang_type_volume_limit", 1000),
     xi_type_ratio |-> Get(cfg, "xi_type_ratio", 60),
     xi_type_volume_limit |-> Get(cfg, "xi_type_volume_limit", 3000),
     price_upper_limits |-> Get(cfg, "price_upper_limits", NoMap),
     price_lower_limits |-> Get(cfg, "price_lower_limits", NoMap),
     volume_limits |-> Get(cfg, "volume_limits", NoMap)]

\* __init__: the per-round records, table values merged with the overrides;
\* a round whose record cannot be read is logged and left out
MergedRoundConstraints(rc, cfg) ==
    LET prm == InitConstraintParameters(cfg)
    IN  [r \in {q \in RoundSet : CanGetRoundConstraints(rc, q)} |->
           LET c == GetRoundConstraints(rc, r)
               total_quantity == IF HasMap(prm.volume_limits, r)
                                 THEN prm.volume_limits[r] ELSE c.total_quantity
           IN  [price_upper |-> IF HasMap(prm.price_upper_limits, r)
                                THEN prm.price_upper_limits[r] ELSE c.upper_price_limit,
                price_lower |-> IF HasMap(prm.price_lower_limits, r)
                                THEN prm.price_lower_limits[r] ELSE c.lower_price_limit,
                total_target |-> total_quantity,
                total_upper |-> VolUpper(total_quantity, prm.volume_tolerance),
                total_lower |-> VolLower(total_quantity, prm.volume_tolerance)]]

\* reset_round_constraints: the per-round records rebuilt from the data loader;
\* a round whose record cannot be read is logged and left out
ResetRecords(rc, tol) ==
    [r \in {q \in RoundSet : CanGetRoundConstraints(rc, q)} |->
        LET c == GetRoundConstraints(rc, r)
        IN  [price_upper |-> c.upper_price_limit,
             price_lower |-> c.lower_price_limit,
             total_target |-> c.total_quantity,
             total_upper |-> VolUpper(c.total_quantity, tol),
             total_lower |-> VolLower(c.total_quantity, tol)]]

\* ConstraintManager(data_loader, constraint_config)
NewConstraintManager(rc, cfg) ==
    [constraint_config |-> cfg,
     params |-> InitConstraintParameters(cfg),
     round_constraints |-> MergedRoundConstraints(rc, cfg)]

\* dict.update
DictUpdate(old, new) ==
    [k \in DOMAIN old \cup DOMAIN new |-> IF k \in DOMAIN new THEN new[k] ELSE old[k]]

\* reset_round_constraints(constraint_config); NoConfig for a call without one
ResetRoundConstraints(cm, rc, new) ==
    LET cfg == IF DOMAIN new # {} THEN new ELSE cm.constraint_config
        prm == IF DOMAIN new # {}
               THEN InitConstraintParameters(cfg) ELSE cm.params
    IN  [constraint_config |-> cfg,
         params |-> prm,
         round_constraints |-> ResetRecords(rc, prm.volume_tolerance)]

\* update_config(constraint_config)
UpdateConfig(cm, rc, new) ==
    IF DOMAIN new # {}
    THEN LET cfg == DictUpdate(cm.constraint_config, new)
         IN  ResetRoundConstraints(
                 [constraint_config |-> cfg,
                  params |-> InitConstraintParameters(cfg),
                  round_constraints |-> cm.round_constraints], rc, NoConfig)
    ELSE cm

----------------------------------------------------------------------------
(* ConstraintManager: validators.  Each returns is_valid, the violations *)
(* (SKUs, rounds or cells) and whether it raised.                          *)

Result(violations) ==
    [is_valid |-> violations = {}, violations |-> violations, raised |-> FALSE]

Raised == [is_valid |-> FALSE, violations |-> {}, raised |-> TRUE]

\* validate_demand_constraints
ValidateDemand(cm, M) ==
    Result({p \in Products : Abs(RowSum(M, p) - product_data[p].demand) > Slack})

\* validate_volume_constraints: target, upper_limit, lower_limit of round r
\* (defined when target is not None)
HasVolumeBounds(cm, r) ==
    HasMap(cm.params.volume_limits, r) \/ r \in DOMAIN cm.round_constraints

\* the bounds read from the manager's per-round records only
VolumeBoundsFromRecords(cm, r) ==
    [target |-> cm.round_constraints[r].total_target,
     upper |-> cm.round_constraints[r].total_upper,
     lower |-> cm.round_constraints[r].total_lower]

\* validate_volume_constraints: the override first, else the manager's record
VolumeBounds(cm, r) ==
    IF HasMap(cm.params.volume_limits, r)
    THEN [target |-> cm.params.volume_limits[r],
          upper |-> VolUpper(cm.params.volume_limits[r], cm.params.volume_tolerance),
          lower |-> VolLower(cm.params.volume_limits[r], cm.params.volume_tolerance)]
    ELSE [target |-> cm.round_constraints[r].total_target,
          upper |-> cm.round_constraints[r].total_upper,
          lower |-> cm.round_constraints[r].total_lower]

\* validate_volume_constraints: a violation names the round and the bounds
ValidateVolume(cm, M) ==
    Result({[round |-> r,
             target_volume |-> VolumeBounds(cm, r).target,
             upper_limit |-> VolumeBounds(cm, r).upper,
             lower_limit |-> VolumeBounds(cm, r).lower] :
              r \in {q \in RoundSet :
                        /\ HasVolumeBounds(cm, q)
                        /\ \/ ColSum(M, q) - Slack > VolumeBounds(cm, q).upper
                           \/ ColSum(M, q) + Slack < VolumeBounds(cm, q).lower}})

\* validate_price_constraints: price_upper and price_lower of round r
\* (defined when neither is None)
HasPriceBounds(cm, r) ==
    /\ HasMap(cm.params.price_upper_limits, r) \/ r \in DOMAIN cm.round_constraints
    /\ HasMap(cm.params.price_lower_limits, r) \/ r \in DOMAIN cm.round_constraints

PriceBounds(cm, r) ==
    [upper |-> IF HasMap(cm.params.price_upper_limits, r)
               THEN cm.params.price_upper_limits[r]
               ELSE cm.round_constraints[r].price_upper,
     lower |-> IF HasMap(cm.params.price_lower_limits, r)
               THEN cm.params.price_lower_limits[r]
               ELSE cm.round_constraints[r].price_lower]

\* total_revenue - bound * total_quantity; the revenue counts the cells > 0 only
RevenueMinus(M, r, bound) ==
    SumSeq([p \in Products |->
              IF M[p][r] > 0 THEN M[p][r] * (UnitBoxPrice(p) - bound)
              ELSE (0 - bound) * M[p][r]])

\* avg_price - 0.01 > price_upper, with avg_price = total_revenue / total_quantity
AvgAbove(M, r, bound) ==
    LET total == ColSum(M, r)
        d == RevenueMinus(M, r, bound)
    IN  IF total > 0 THEN d > total \div 100
        ELSE d < 0 - ((0 - total) \div 100)

\* avg_price + 0.01 < price_lower
AvgBelow(M, r, bound) ==
    LET total == ColSum(M, r)
        d == RevenueMinus(M, r, bound)
    IN  IF total > 0 THEN d < 0 - (total \div 100)
        ELSE d > (0 - total) \div 100

\* validate_price_constraints; the 条支比 column is read for every cell > 0
ValidatePrice(cm, M) ==
    IF \E r \in RoundSet : ColSum(M, r) # 0 /\
           \E p \in Products : M[p][r] > 0 /\ ~HasSticksColumn(p)
    THEN Raised
    ELSE Result({r \in RoundSet :
                   /\ ColSum(M, r) # 0
                   /\ HasPriceBounds(cm, r)
                   /\ \/ AvgAbove(M, r, PriceBounds(cm, r).upper)
                      \/ AvgBelow(M, r, PriceBounds(cm, r).lower)})

\* validate_fixed_allocation_constraints
ValidateFixed(cm, M) ==
    Result({<<p, r>> \in Products \X RoundSet :
              /\ product_data[p].alloc[r] > 0
              /\ Abs(product_data[p].alloc[r] - M[p][r]) > Slack})

\* code point of the numeral of 第n轮: 一 二 三 四 五 六
CodePoint(n) ==
    CASE n = 1 -> 19968 [] n = 2 -> 20108 [] n = 3 -> 19977
      [] n = 4 -> 22235 [] n = 5 -> 20116 [] n = 6 -> 20845

\* min(self.rounds): the least label in string order
MinRoundLabel == CHOOSE r \in RoundSet : \A q \in RoundSet : CodePoint(r) <= CodePoint(q)

\* validate_first_round_supply_constraints
ValidateFirstRoundSupply(cm, M) ==
    Result({p \in Products :
              /\ M[p][MinRoundLabel] > 0
              /\ M[p][MinRoundLabel] > product_data[p].supply})

\* _identify_special_products: is_demand_based, False for every SKU of a sheet
\* without the 按需 column (a record without the by_demand field)
IsDemandBased(p) == "by_demand" \in DOMAIN product_data[p] /\ product_data[p].by_demand

\* validate_demand_based_priority_constraints: a 按需 SKU with an allocation
\* must have all of it in the first two rounds
ValidateDemandBasedPriority(cm, M) ==
    IF Len(rounds) < 2 THEN Result({})
    ELSE Result({p \in Products :
                   /\ IsDemandBased(p)
                   /\ LET first_two_allocation == M[p][rounds[1]] + M[p][rounds[2]]
                          total_allocation == RowSum(M, p)
                      IN  total_allocation > 0 /\ first_two_allocation < total_allocation})

\* validate_c_type_constraints: the violations, by constraint and round
\* (round 0 for the 方 concentration, which names no round)
ValidateCType(cm, M) ==
    LET c_type == {p \in Products : product_data[p].c}
        fang == SubtypeIndices("fang")
        chang == SubtypeIndices("chang")
        xi == SubtypeIndices("xi")
        fang_rounds == {r \in RoundSet : \E p \in fang : M[p][r] > 0}
    IN  IF c_type = {} THEN Result({})
        ELSE Result(
            {<<"c_type_ratio", r>> : r \in {q \in RoundSet :
                 /\ ColSum(M, q) > 0
                 /\ SumOver(M, c_type, q) * 100 > cm.params.c_type_ratio * ColSum(M, q)}}
            \cup
            {<<"c_type_volume", r>> : r \in {q \in RoundSet :
                 SumOver(M, c_type, q) > cm.params.c_type_volume_limit * Box}}
            \cup
            (IF fang # {} /\ Cardinality(fang_rounds) > 1
             THEN {<<"fang_rounds", 0>>} ELSE {})
            \cup
            {<<"chang_volume", r>> : r \in {q \in RoundSet :
                 /\ chang # {}
                 /\ SumOver(M, chang, q) > cm.params.chang_type_volume_limit * Box}}
            \cup
            {<<"chang_ratio", r>> : r \in {q \in RoundSet :
                 /\ chang # {}
                 /\ SumOver(M, c_type, q) > 0
                 /\ SumOver(M, chang, q) * 100
                        > cm.params.chang_type_ratio * SumOver(M, c_type, q)}}
            \cup
            {<<"xi_volume", r>> : r \in {q \in RoundSet :
                 /\ xi # {}
                 /\ SumOver(M, xi, q) > cm.params.xi_type_volume_limit * Box}}
            \cup
            {<<"xi_ratio", r>> : r \in {q \in RoundSet :
                 /\ xi # {}
                 /\ SumOver(M, c_type, q) > 0
                 /\ SumOver(M, xi, q) * 100
                        > cm.params.xi_type_ratio * SumOver(M, c_type, q)}})

\* validate_price_based_constraints: priced SKUs among the SKUs allocated in a round
ValidatePriceBased(cm, M) ==
    Result({r \in RoundSet :
              LET total_count == Cardinality({p \in Products : M[p][r] > 0})
                  price_based_count ==
                      Cardinality({p \in Products : M[p][r] > 0 /\ product_data[p].by_price})
              IN  /\ total_count > 0
                  /\ price_based_count * 100 < cm.params.price_based_ratio * total_count})

----------------------------------------------------------------------------
(* ConstraintManager.validate_all_constraints *)

\* all_constraint_names
AllConstraintNames ==
    <<"demand", "price", "volume", "fixed_allocation", "first_round_supply",
      "demand_based_priority", "price_based", "c_type">>

SeqToSet(s) == {s[i] : i \in 1..Len(s)}

\* one entry of constraint_validators, added when the flag is on
Gated(cfg, flag, name) == IF Get(cfg, flag, TRUE) THEN <<name>> ELSE <<>>

\* constraint_validators with the two unconditional entries placed under the
\* demand flag
ConstraintValidatorsUnderDemandFlag(cfg) ==
    Gated(cfg, "enable_demand_constraints", "demand")
    \o Gated(cfg, "enable_price_constraints", "price")
    \o Gated(cfg, "enable_volume_constraints", "volume")
    \o Gated(cfg, "enable_demand_constraints", "fixed_allocation")
    \o Gated(cfg, "enable_demand_constraints", "first_round_supply")
    \o Gated(cfg, "enable_demand_based_constraints", "demand_based_priority")
    \o Gated(cfg, "enable_price_based_constraints", "price_based")
    \o Gated(cfg, "enable_c_type_constraints", "c_type")

\* the keys of constraint_validators, in insertion order
ConstraintValidators(cfg) ==
    Gated(cfg, "enable_demand_constraints", "demand")
    \o Gated(cfg, "enable_price_constraints", "price")
    \o Gated(cfg, "enable_volume_constraints", "volume")
    \o <<"fixed_allocation">>
    \o <<"first_round_supply">>
    \o Gated(cfg, "enable_demand_based_constraints", "demand_based_priority")
    \o Gated(cfg, "enable_price_based_constraints", "price_based")
    \o Gated(cfg, "enable_c_type_constraints", "c_type")

\* validator(allocation_matrix) for the entry called name
RunValidator(name, cm, M) ==
    CASE name = "demand" -> ValidateDemand(cm, M)
      [] name = "price" -> ValidatePrice(cm, M)
      [] name = "volume" -> ValidateVolume(cm, M)
      [] name = "fixed_allocation" -> ValidateFixed(cm, M)
      [] name = "first_round_supply" -> ValidateFirstRoundSupply(cm, M)
      [] name = "demand_based_priority" -> ValidateDemandBasedPriority(cm, M)
      [] name = "price_based" -> ValidatePriceBased(cm, M)
      [] name = "c_type" -> ValidateCType(cm, M)

\* the names of all_constraint_names that are not in constraint_validators
SkippedConstraints(validators) ==
    SelectSeq(AllConstraintNames, LAMBDA n : n \notin SeqToSet(validators))

\* the loop's turn with an except branch that only records the error
AfterResultErrorRecorded(overall_valid, result) ==
    IF result.raised THEN overall_valid
    ELSE IF ~result.is_valid THEN FALSE
    ELSE overall_valid

\* one turn of the loop over constraint_validators: overall_valid after a
\* result (a result that is not valid, or an exception, clears it)
AfterResult(overall_valid, result) ==
    IF result.raised THEN FALSE
    ELSE IF ~result.is_valid THEN FALSE
    ELSE overall_valid

RECURSIVE RunValidators(_, _, _, _)
RunValidators(names, cm, M, overall_valid) ==
    IF names = <<>> THEN overall_valid
    ELSE RunValidators(Tail(names), cm, M,
                       AfterResult(overall_valid, RunValidator(Head(names), cm, M)))

\* validate_all_constraints
ValidateAllConstraints(cm, M) ==
    LET validators == ConstraintValidators(cm.constraint_config)
    IN  [overall_valid |-> RunValidators(validators, cm, M, TRUE),
         constraint_results |->
             [n \in SeqToSet(validators) |-> RunValidator(n, cm, M)],
         skipped_constraints |-> SkippedConstraints(validators),
         enabled_constraints |-> validators]

----------------------------------------------------------------------------
(* Bounds of the model and the inputs it draws *)

\* the longest round list
MaxRounds == 3

\* round lists: 第a轮..第b轮 in canonical order, with or without 第一轮
RoundLists ==
    {[i \in 1..(b - a + 1) |-> a + i - 1] : a \in 1..2, b \in 1..MaxRounds} \ {<<>>}

\* quantities (ticks) of the cells, demands and targets the model draws
Grid == {0, 8, 500, 3500, 3996, 4000}
DemandVals == {0, 4500, 8000}
SupplyVals == {500, 4000}
FixedVal == 4 * MinThreshold

\* the sheet rows of pre-existing allocations: none, the first round, every round
AllocRows(rs) ==
    LET S == {rs[i] : i \in 1..Len(rs)}
    IN  { [r \in S |-> 0],
          [r \in S |-> IF r = rs[1] THEN FixedVal ELSE 0],
          [r \in S |-> FixedVal] }

\* round-constraint tables: price bounds 49950..50050 or 48000..49000, three
\* rows of 总量
TargetRows ==
    { [r \in 1..6 |-> 4000],
      [r \in 1..6 |-> IF r = 1 THEN 4000 ELSE IF r = 2 THEN 500 ELSE 3500],
      [r \in 1..6 |-> IF r = 1 THEN 4000 ELSE IF r = 2 THEN 500 ELSE 0] }

PriceBoundRows == {[upper |-> 50050, lower |-> 49950], [upper |-> 49000, lower |-> 48000]}

Tables(rs) ==
    { [r \in {rs[i] : i \in 1..Len(rs)} |->
          [upper_price_limit |-> b.upper, lower_price_limit |-> b.lower,
           total_quantity |-> t[r]]] : t \in TargetRows, b \in PriceBoundRows }

\* SKUs with empty C, C类, 按价 and 按需 columns and a unit box price of 50000:
\* 批发价 200 at 条支比 200, or 批发价 20 on a sheet without the 条支比 column
ProductRecords(rs) ==
    [demand : DemandVals, supply : SupplyVals, wholesale : {200}, sticks : {200},
     alloc : AllocRows(rs), c : {FALSE}, c_class : {""}, by_price : {FALSE},
     by_demand : {FALSE}]
    \cup
    [demand : DemandVals, supply : SupplyVals, wholesale : {20}, sticks : {0},
     alloc : AllocRows(rs), c : {FALSE}, c_class : {""}, by_price : {FALSE},
     by_demand : {FALSE}]

ConstraintConfigs ==
    [enable_demand_constraints : BOOLEAN,
     enable_volume_constraints : BOOLEAN,
     enable_price_constraints : {TRUE},
     enable_c_type_constraints : {TRUE},
     enable_balance_constraints : {TRUE},
     enable_demand_split_constraints : BOOLEAN,
     enable_demand_based_constraints : {TRUE},
     enable_price_based_constraints : {TRUE},
     volume_tolerance : {5},
     price_upper_limits : {NoMap},
     price_lower_limits : {NoMap},
     volume_limits : {NoMap}]

ObjectiveConfigs ==
    [maximize_allocation_weight : {1000},
     round_balance_weight : {800},
     round_variance_weight : {400},
     product_balance_weight : {0, 100},
     smooth_transition_weight : {300}]

\* solver values the model draws for the decision variables
Candidates == [Products -> [RoundSet -> Grid]]

----------------------------------------------------------------------------
(* The allocator on one loaded data set *)

Init ==
    /\ rounds \in RoundLists
    /\ product_data \in {<<rec>> : rec \in ProductRecords(rounds)}
    /\ sheet2 \in Tables(rounds)
    /\ round_constraints = InitialConstraintsCache(rounds, sheet2)
    /\ constraint_manager = None
    /\ constraint_config = None
    /\ objective_config = None
    /\ lp_model = None
    /\ status = "NotRun"
    /\ var_values = None
    /\ call = "none"
    /\ error = "none"
    /\ result_data = None
    /\ raw = None
    /\ allocation_matrix = None
    /\ validation = None

\* solve, status Optimal: the solver returns a point of the model, which
\* _extract_solution rounds and post-processes
SolveOptimal ==
    /\ status = "NotRun"
    /\ \E cfg \in ConstraintConfigs, obj \in ObjectiveConfigs :
       \E x \in Candidates :
          /\ Feasible(round_constraints, x, cfg, obj)
          /\ constraint_config' = cfg
          /\ objective_config' = obj
          /\ lp_model' = BuildModel(round_constraints, cfg)
          /\ status' = "Optimal"
          /\ var_values' = x
          /\ raw' = ExtractRounded(x)
          /\ allocation_matrix' = PostProcess(ExtractRounded(x))
    /\ UNCHANGED <<error, result_data, call, rounds, product_data, sheet2, round_constraints,
                   constraint_manager, validation>>

\* solve, status Infeasible: the model has no solution and the record carries
\* no matrix
SolveInfeasible ==
    /\ status = "NotRun"
    /\ \E cfg \in ConstraintConfigs, obj \in ObjectiveConfigs :
          /\ ProvablyInfeasible(round_constraints, cfg)
          /\ constraint_config' = cfg
          /\ objective_config' = obj
          /\ lp_model' = BuildModel(round_constraints, cfg)
          /\ status' = "Infeasible"
          /\ var_values' = None
          /\ raw' = None
          /\ allocation_matrix' = None
    /\ UNCHANGED <<error, result_data, call, rounds, product_data, sheet2, round_constraints,
                   constraint_manager, validation>>

\* solve, any other status: the solver stopped at the time limit holding a
\* feasible incumbent and model.status is Not Solved (a PuLP release that
\* reports such a stop as Optimal takes the branch of SolveOptimal); the record
\* carries the status and no matrix
SolveNotSolved ==
    /\ status = "NotRun"
    /\ \E cfg \in ConstraintConfigs, obj \in ObjectiveConfigs :
       \E x \in Candidates :
          /\ Feasible(round_constraints, x, cfg, obj)
          /\ constraint_config' = cfg
          /\ objective_config' = obj
          /\ lp_model' = BuildModel(round_constraints, cfg)
          /\ status' = "Not Solved"
          /\ var_values' = x
          /\ raw' = None
          /\ allocation_matrix' = None
    /\ UNCHANGED <<error, result_data, call, rounds, product_data, sheet2, round_constraints,
                   constraint_manager, validation>>

Next == SolveOptimal \/ SolveInfeasible \/ SolveNotSolved

Spec == Init /\ [][Next]_vars

----------------------------------------------------------------------------
(* The allocator on data sets that exercise the allocation-strategy and     *)
(* C-type families: demands of 20 to 150 boxes, tagged SKUs                 *)

\* a SKU without pre-existing allocation on the round list rs
Sku(rs, demand, supply, c, c_class, by_price) ==
    [demand |-> demand, supply |-> supply, wholesale |-> 200, sticks |-> 200,
     alloc |-> [r \in {rs[i] : i \in 1..Len(rs)} |-> 0], c |-> c,
     c_class |-> c_class, by_price |-> by_price, by_demand |-> FALSE]

\* a round-constraint table with price bounds 49950..50050 and the targets t
TargetTable(rs, t) ==
    [r \in {rs[i] : i \in 1..Len(rs)} |->
        [upper_price_limit |-> 50050, lower_price_limit |-> 49950,
         total_quantity |-> t[r]]]

\* the data sets: one SKU of 150 boxes on two rounds; one SKU of 80 boxes on
\* three rounds; a 按价 and a plain SKU; two plain SKUs; a C-type and a plain
\* SKU; two 方 C-type SKUs and a plain SKU; one SKU of 100 boxes on one round
FamilySheets ==
    { [rounds |-> <<1, 2>>,
       product_data |-> <<Sku(<<1, 2>>, 150 * Box, 200 * Box, FALSE, "", FALSE)>>,
       sheet2 |-> TargetTable(<<1, 2>>, <<150 * Box - Box \div 100, Box \div 100>>)],
      [rounds |-> <<1, 2, 3>>,
       product_data |-> <<Sku(<<1, 2, 3>>, 80 * Box, 200 * Box, FALSE, "", FALSE)>>,
       sheet2 |-> TargetTable(<<1, 2, 3>>, <<80 * Box - Box \div 2, Box \div 2, 0>>)],
      [rounds |-> <<1, 2>>,
       product_data |-> <<Sku(<<1, 2>>, 60 * Box, 200 * Box, FALSE, "", TRUE),
                          Sku(<<1, 2>>, 40 * Box, 200 * Box, FALSE, "", FALSE)>>,
       sheet2 |-> TargetTable(<<1, 2>>, <<100 * Box, 0>>)],
      [rounds |-> <<1, 2>>,
       product_data |-> <<Sku(<<1, 2>>, 60 * Box, 200 * Box, FALSE, "", FALSE),
                          Sku(<<1, 2>>, 40 * Box, 200 * Box, FALSE, "", FALSE)>>,
       sheet2 |-> TargetTable(<<1, 2>>, <<100 * Box, 0>>)],
      [rounds |-> <<1, 2>>,
       product_data |-> <<Sku(<<1, 2>>, 40 * Box + Box \div 100, 200 * Box, TRUE, "", FALSE),
                          Sku(<<1, 2>>, 60 * Box + Box \div 2, 200 * Box, FALSE, "", FALSE)>>,
       sheet2 |-> TargetTable(<<1, 2>>, <<100 * Box, Box \div 2 + Box \div 100>>)],
      [rounds |-> <<1, 2>>,
       product_data |-> <<Sku(<<1, 2>>, 10 * Box, 200 * Box, TRUE, "fang", FALSE),
                          Sku(<<1, 2>>, 10 * Box, 200 * Box, TRUE, "fang", FALSE),
                          Sku(<<1, 2>>, 60 * Box, 200 * Box, FALSE, "", FALSE)>>,
       sheet2 |-> TargetTable(<<1, 2>>, <<80 * Box, 0>>)] }
    \cup
    { [rounds |-> <<r>>,
       product_data |-> <<Sku(<<r>>, 100 * Box, supply, FALSE, "", FALSE)>>,
       sheet2 |-> TargetTable(<<r>>, (r :> 100 * Box))] :
      r \in {1, 2}, supply \in {50 * Box, 100 * Box, 200 * Box} }

\* the request configurations: the default and every choice of the volume,
\* demand-split, price-priority and C-type flags
FamilyConfigs ==
    [enable_demand_constraints : {TRUE},
     enable_volume_constraints : BOOLEAN,
     enable_price_constraints : {TRUE},
     enable_c_type_constraints : BOOLEAN,
     enable_balance_constraints : {TRUE},
     enable_demand_split_constraints : BOOLEAN,
     enable_demand_based_constraints : {TRUE},
     enable_price_based_constraints : BOOLEAN,
     volume_tolerance : {5},
     price_upper_limits : {NoMap},
     price_lower_limits : {NoMap},
     volume_limits : {NoMap}]

\* the parts of a demand the solver may leave in a second round: 0.01 and 0.5 box
SmallParts == {Box \div 100, Box \div 2}

\* solver values the model draws for the cells of SKU p
CellGrid(p) ==
    {0, product_data[p].demand} \cup SmallParts
        \cup {product_data[p].demand - s : s \in SmallParts}

\* rows of solver values for SKU p: cells of the grid, the row within the demand
FamilyRows(p) ==
    {row \in [RoundSet -> CellGrid(p)] :
        SumSeq([i \in 1..Len(rounds) |-> row[rounds[i]]]) <= product_data[p].demand}

FamilyCandidates ==
    IF Len(product_data) = 1 THEN {<<a>> : a \in FamilyRows(1)}
    ELSE IF Len(product_data) = 2
    THEN {<<a, b>> : a \in FamilyRows(1), b \in FamilyRows(2)}
    ELSE {<<a, b, c>> : a \in FamilyRows(1), b \in FamilyRows(2), c \in FamilyRows(3)}

FamilyInit ==
    /\ \E sh \in FamilySheets :
          /\ rounds = sh.rounds
          /\ product_data = sh.product_data
          /\ sheet2 = sh.sheet2
    /\ round_constraints = InitialConstraintsCache(rounds, sheet2)
    /\ constraint_manager = None
    /\ constraint_config = None
    /\ objective_config = None
    /\ lp_model = None
    /\ status = "NotRun"
    /\ var_values = None
    /\ call = "none"
    /\ error = "none"
    /\ result_data = None
    /\ raw = None
    /\ allocation_matrix = None
    /\ validation = None

\* solve, status Optimal
FamilySolveOptimal ==
    /\ status = "NotRun"
    /\ \E cfg \in FamilyConfigs, obj \in ObjectiveConfigs :
       \E x \in FamilyCandidates :
          /\ Feasible(round_constraints, x, cfg, obj)
          /\ constraint_config' = cfg
          /\ objective_config' = obj
          /\ lp_model' = BuildModel(round_constraints, cfg)
          /\ status' = "Optimal"
          /\ var_values' = x
          /\ raw' = ExtractRounded(x)
          /\ allocation_matrix' = PostProcess(ExtractRounded(x))
    /\ UNCHANGED <<error, result_data, call, rounds, product_data, sheet2, round_constraints,
                   constraint_manager, validation>>

\* solve, status Infeasible
FamilySolveInfeasible ==
    /\ status = "NotRun"
    /\ \E cfg \in FamilyConfigs, obj \in ObjectiveConfigs :
          /\ ProvablyInfeasible(round_constraints, cfg)
          /\ constraint_config' = cfg
          /\ objective_config' = obj
          /\ lp_model' = BuildModel(round_constraints, cfg)
          /\ status' = "Infeasible"
          /\ var_values' = None
          /\ raw' = None
          /\ allocation_matrix' = None
    /\ UNCHANGED <<error, result_data, call, rounds, product_data, sheet2, round_constraints,
                   constraint_manager, validation>>

FamilyNext == FamilySolveOptimal \/ FamilySolveInfeasible

FamilySpec == FamilyInit /\ [][FamilyNext]_vars

----------------------------------------------------------------------------
(* The two post-processing methods, each called by itself on a matrix of    *)
(* one SKU                                                                  *)

\* cell values of the matrices: 0, 0.01, 0.04, 0.09, 0.1 and 80 boxes
PostCells == {0, Box \div 100, 4 * (Box \div 100), 9 * (Box \div 100), Box \div 10, 80 * Box}

\* the 需求 column: 0, 0.1, 0.105, 80.05 and 80.055 boxes
PostDemands ==
    {0, Box \div 10, Box \div 10 + Box \div 200, 80 * Box + Box \div 20,
     80 * Box + Box \div 20 + Box \div 200}

PostRounds == {<<1, 2>>, <<1, 2, 3>>}

PostInit ==
    /\ rounds \in PostRounds
    /\ \E d \in PostDemands :
          product_data = <<Sku(rounds, d, 200 * Box, FALSE, "", FALSE)>>
    /\ raw \in [{1} -> [{rounds[i] : i \in 1..Len(rounds)} -> PostCells]]
    /\ sheet2 = None
    /\ round_constraints = None
    /\ constraint_manager = None
    /\ constraint_config = None
    /\ objective_config = None
    /\ lp_model = None
    /\ status = "NotRun"
    /\ var_values = None
    /\ allocation_matrix = None
    /\ validation = None
    /\ call = "none"
    /\ error = "none"
    /\ result_data = None

\* _handle_small_allocations(raw)
CallHandleSmallAllocations ==
    /\ call = "none"
    /\ allocation_matrix' = HandleSmallAllocations(raw)
    /\ call' = "_handle_small_allocations"
    /\ UNCHANGED <<error, result_data, rounds, product_data, sheet2, round_constraints,
                   constraint_manager, constraint_config, objective_config, lp_model,
                   status, var_values, raw, validation>>

\* _handle_tiny_unallocated_demand(raw)
CallHandleTinyUnallocatedDemand ==
    /\ call = "none"
    /\ allocation_matrix' = HandleTinyUnallocatedDemand(raw)
    /\ call' = "_handle_tiny_unallocated_demand"
    /\ UNCHANGED <<error, result_data, rounds, product_data, sheet2, round_constraints,
                   constraint_manager, constraint_config, objective_config, lp_model,
                   status, var_values, raw, validation>>

PostNext == CallHandleSmallAllocations \/ CallHandleTinyUnallocatedDemand

PostSpec == PostInit /\ [][PostNext]_vars

----------------------------------------------------------------------------
(* The objective of the model and the allocator returning a minimiser.      *)
(* Quantities are whole boxes and the value is the objective times          *)
(* 100 * len(rounds), which keeps the averages and the weights 0.17, 1.5,   *)
(* 0.6, 0.8, 0.9, 1.2 in the integers.                                      *)

Boxes(v) == v \div Box

Plus(v) == IF v > 0 THEN v ELSE 0

SetMax(S) == CHOOSE m \in S : \A k \in S : k <= m

SetMin(S) == CHOOSE m \in S : \A k \in S : m <= k

\* round_totals[i]
RoundTotal(x, i) == Boxes(ColSum(x, rounds[i]))

\* 1: - maximize_allocation_weight * total_allocation
TotalTerm(x, obj) ==
    IF obj.maximize_allocation_weight > 0
    THEN - obj.maximize_allocation_weight * 100 * Len(rounds)
             * SumSeq([i \in 1..Len(rounds) |-> RoundTotal(x, i)])
    ELSE 0

\* 2: round_balance_weight * (max_round - min_round)
RoundBalanceTerm(x, obj) ==
    IF obj.round_balance_weight > 0
    THEN obj.round_balance_weight * 100 * Len(rounds)
             * (SetMax({RoundTotal(x, i) : i \in 1..Len(rounds)})
                  - SetMin({RoundTotal(x, i) : i \in 1..Len(rounds)}))
    ELSE 0

\* 3: round_variance_weight * sum of |round_total - avg_round|
RoundVarianceTerm(x, obj) ==
    IF obj.round_variance_weight > 0
    THEN obj.round_variance_weight * 100
             * SumSeq([i \in 1..Len(rounds) |->
                         Abs(Len(rounds) * RoundTotal(x, i)
                               - SumSeq([j \in 1..Len(rounds) |-> RoundTotal(x, j)]))])
    ELSE 0

\* the SKUs _add_product_level_balance and _add_smooth_transition look at
BalancedProducts == {p \in Products : product_data[p].demand > 0 /\ ~IsExisting(p)}

\* _add_product_level_balance for SKU p: product_max - product_min, the
\* concentration penalties above 60, 80 and 90 % of the demand, and the
\* rounds_shortage of a SKU of 100 boxes or more (a round counts with its
\* binary at 1, which needs 0.1 box)
ProductBalanceOf(x, p, weight) ==
    LET n == Len(rounds)
        d == Boxes(product_data[p].demand)
        b(i) == Boxes(x[p][rounds[i]])
        used == Cardinality({i \in 1..n : x[p][rounds[i]] >= Box \div 10})
    IN  weight * 100 * n * (SetMax({b(i) : i \in 1..n}) - SetMin({b(i) : i \in 1..n}))
        + SumSeq([i \in 1..n |->
                    weight * 3 * 10 * n * Plus(10 * b(i) - 6 * d)
                      + weight * 5 * 10 * n * Plus(10 * b(i) - 8 * d)
                      + weight * 10 * 10 * n * Plus(10 * b(i) - 9 * d)])
        + (IF d >= 100 THEN weight * 150 * n * Plus(2 - used) ELSE 0)

\* 4: the product-level terms
ProductBalanceTerm(x, obj) ==
    IF obj.product_balance_weight > 0
    THEN SumSeq([p \in Products |->
                   IF p \in BalancedProducts
                   THEN ProductBalanceOf(x, p, obj.product_balance_weight) ELSE 0])
    ELSE 0

\* 5: _add_smooth_transition: the differences of adjacent round totals (over
\* the SKUs with demand) and, weighted 0.17, of adjacent cells of the SKUs
\* of 30 boxes or more
SmoothTransitionTerm(x, obj) ==
    LET n == Len(rounds)
        weight == obj.smooth_transition_weight
        total(i) == Boxes(SumOver(x, {p \in Products : product_data[p].demand > 0},
                                  rounds[i]))
        b(p, i) == Boxes(x[p][rounds[i]])
    IN  IF weight > 0
        THEN SumSeq([i \in 1..(n - 1) |-> weight * 100 * n * Abs(total(i + 1) - total(i))])
             + SumSeq([p \in Products |->
                         IF p \in BalancedProducts /\ product_data[p].demand >= 30 * Box
                         THEN SumSeq([i \in 1..(n - 1) |->
                                        weight * 17 * n * Abs(b(p, i + 1) - b(p, i))])
                         ELSE 0])
        ELSE 0

\* the SKUs whose 按需 cell holds 需
DemandBasedIndices == {p \in Products : product_data[p].by_demand}

\* demand_penalty_vars: 50, 100, 200, ... times the cells of the 按需 SKUs in
\* the third and later rounds
DemandPenaltyTerm(x, cfg) ==
    IF Get(cfg, "enable_demand_based_constraints", TRUE)
    THEN SumSeq([p \in Products |->
                   IF p \in DemandBasedIndices
                   THEN SumSeq([i \in 1..Len(rounds) |->
                                  IF i >= 3
                                  THEN 50 * 2^(i - 3) * 100 * Len(rounds)
                                         * Boxes(x[p][rounds[i]])
                                  ELSE 0])
                   ELSE 0])
    ELSE 0

\* balance_penalty_vars: 500 times the deviations of adjacent round totals
\* beyond 1.2 and 0.8
BalancePenaltyTerm(x, cfg) ==
    IF Get(cfg, "enable_balance_constraints", TRUE)
    THEN SumSeq([i \in 1..(Len(rounds) - 1) |->
                   500 * 10 * Len(rounds)
                     * (Plus(10 * RoundTotal(x, i) - 12 * RoundTotal(x, i + 1))
                          + Plus(8 * RoundTotal(x, i + 1) - 10 * RoundTotal(x, i)))])
    ELSE 0

\* objective starts as the int 0 and becomes an LpAffineExpression with the
\* first term subtracted from or added to it in create_objective_function;
\* "objective += term" inside _add_product_level_balance and
\* _add_smooth_transition extends the caller's objective only when it is an
\* expression already (on an int it rebinds the helper's local name)
IsExpression(obj) ==
    \/ obj.maximize_allocation_weight > 0
    \/ obj.round_balance_weight > 0
    \/ obj.round_variance_weight > 0

\* create_objective_function, every auxiliary variable at its least value
Objective(x, cfg, obj) ==
    TotalTerm(x, obj)
    + (IF Len(rounds) >= 2
       THEN RoundBalanceTerm(x, obj) + RoundVarianceTerm(x, obj)
              + (IF IsExpression(obj)
                 THEN ProductBalanceTerm(x, obj) + SmoothTransitionTerm(x, obj)
                 ELSE 0)
       ELSE 0)
    + DemandPenaltyTerm(x, cfg)
    + BalancePenaltyTerm(x, cfg)

\* the default objective_config
DefaultWeights ==
    [maximize_allocation_weight |-> 1000,
     round_balance_weight |-> 800,
     round_variance_weight |-> 400,
     product_balance_weight |-> 100,
     smooth_transition_weight |-> 300]

\* one SKU of 100 boxes, 按需 or not, on five rounds
OptimumSheets ==
    { [rounds |-> <<1, 2, 3, 4, 5>>,
       product_data |->
           <<[Sku(<<1, 2, 3, 4, 5>>, 100 * Box, supply, FALSE, "", FALSE)
                 EXCEPT !.by_demand = by_demand]>>,
       sheet2 |-> TargetTable(<<1, 2, 3, 4, 5>>, [i \in 1..5 |-> 20 * Box])] :
      supply \in {100 * Box, 150 * Box, 200 * Box}, by_demand \in BOOLEAN }

\* the demand rows and the 按需, balance, price and C-type families on or off;
\* the volume, demand-split and price-priority families off
OptimumConfigs ==
    [enable_demand_constraints : BOOLEAN,
     enable_volume_constraints : {FALSE},
     enable_price_constraints : BOOLEAN,
     enable_c_type_constraints : BOOLEAN,
     enable_balance_constraints : BOOLEAN,
     enable_demand_split_constraints : {FALSE},
     enable_demand_based_constraints : BOOLEAN,
     enable_price_based_constraints : {FALSE},
     volume_tolerance : {5},
     price_upper_limits : {NoMap},
     price_lower_limits : {NoMap},
     volume_limits : {NoMap}]

\* solver values the model draws for a cell: 0, 20, 50, 90 and 100 boxes
OptimumCells == {0, 20 * Box, 50 * Box, 90 * Box, 100 * Box}

OptimumCandidates == {<<a>> : a \in [RoundSet -> OptimumCells]}

\* the feasible candidates of least objective
Minimisers(cfg, obj) ==
    LET valued == {<<Objective(x, cfg, obj), x>> :
                      x \in {y \in OptimumCandidates :
                                Feasible(round_constraints, y, cfg, obj)}}
        least == SetMin({v[1] : v \in valued})
    IN  {v[2] : v \in {w \in valued : w[1] = least}}

OptimumInit ==
    /\ \E sh \in OptimumSheets :
          /\ rounds = sh.rounds
          /\ product_data = sh.product_data
          /\ sheet2 = sh.sheet2
    /\ round_constraints = InitialConstraintsCache(rounds, sheet2)
    /\ constraint_manager = None
    /\ constraint_config = None
    /\ objective_config = None
    /\ lp_model = None
    /\ status = "NotRun"
    /\ var_values = None
    /\ call = "none"
    /\ error = "none"
    /\ result_data = None
    /\ raw = None
    /\ allocation_matrix = None
    /\ validation = None

\* solve under the default weights, status Optimal
SolveToOptimum ==
    /\ status = "NotRun"
    /\ \E cfg \in OptimumConfigs :
       \E x \in Minimisers(cfg, DefaultWeights) :
          /\ constraint_config' = cfg
          /\ objective_config' = DefaultWeights
          /\ lp_model' = BuildModel(round_constraints, cfg)
          /\ status' = "Optimal"
          /\ var_values' = x
          /\ raw' = ExtractRounded(x)
          /\ allocation_matrix' = PostProcess(ExtractRounded(x))
    /\ UNCHANGED <<error, result_data, call, rounds, product_data, sheet2, round_constraints,
                   constraint_manager, validation>>

OptimumNext == SolveToOptimum

OptimumSpec == OptimumInit /\ [][OptimumNext]_vars

----------------------------------------------------------------------------
(* The constraint manager: construction, then validate_all_constraints on a *)
(* matrix                                                                   *)

\* the two SKUs of the validated sheets: a 方 C-type 按需 SKU, with or without
\* a first-round allocation, and a plain SKU that may be 按价; sticks = 0 is a
\* sheet without the 条支比 column
ValidatedSheets(rs) ==
    LET S == {rs[i] : i \in 1..Len(rs)}
    IN  { << [demand |-> 4000, supply |-> 4000, wholesale |-> 200, sticks |-> st,
              alloc |-> a, c |-> TRUE, c_class |-> "fang", by_price |-> FALSE,
              by_demand |-> TRUE],
             [demand |-> 4000, supply |-> 500, wholesale |-> 200, sticks |-> st,
              alloc |-> [r \in S |-> 0], c |-> FALSE, c_class |-> "",
              by_price |-> bp, by_demand |-> FALSE] >> :
          st \in {0, 200}, bp \in BOOLEAN,
          a \in {[r \in S |-> 0], [r \in S |-> IF r = rs[1] THEN FixedVal ELSE 0]} }

\* configurations of the enable flags; NoConfig leaves every flag at its default
FlagConfigs ==
    [enable_demand_constraints : BOOLEAN,
     enable_price_constraints : BOOLEAN,
     enable_volume_constraints : BOOLEAN,
     enable_demand_based_constraints : BOOLEAN,
     enable_price_based_constraints : BOOLEAN,
     enable_c_type_constraints : BOOLEAN] \cup {NoConfig}

\* the matrices handed to validate_all_constraints
ValidatedMatrices == [Products -> [RoundSet -> {0, FixedVal}]]

ValidateInit ==
    /\ rounds \in RoundLists
    /\ product_data \in ValidatedSheets(rounds)
    /\ sheet2 \in {[r \in RoundSet |->
                      [upper_price_limit |-> 50050, lower_price_limit |-> 49950,
                       total_quantity |-> FixedVal]]}
    /\ round_constraints = InitialConstraintsCache(rounds, sheet2)
    /\ constraint_manager = None
    /\ constraint_config = None
    /\ objective_config = None
    /\ lp_model = None
    /\ status = "NotRun"
    /\ var_values = None
    /\ call = "none"
    /\ error = "none"
    /\ result_data = None
    /\ raw = None
    /\ allocation_matrix = None
    /\ validation = None

\* ConstraintManager(data_loader, constraint_config)
Construct ==
    /\ IsNone(constraint_manager)
    /\ \E cfg \in FlagConfigs :
          constraint_manager' = NewConstraintManager(round_constraints, cfg)
    /\ UNCHANGED <<error, result_data, call, rounds, product_data, sheet2, round_constraints, constraint_config,
                   objective_config, lp_model, status, var_values, raw,
                   allocation_matrix, validation>>

\* constraint_manager.validate_all_constraints(allocation_matrix)
ValidateAll ==
    /\ ~IsNone(constraint_manager)
    /\ IsNone(validation)
    /\ \E M \in ValidatedMatrices :
          /\ allocation_matrix' = M
          /\ validation' = ValidateAllConstraints(constraint_manager, M)
    /\ UNCHANGED <<error, result_data, call, rounds, product_data, sheet2, round_constraints,
                   constraint_manager, constraint_config, objective_config, lp_model,
                   status, var_values, raw>>

ValidateNext == Construct \/ ValidateAll

ValidateSpec == ValidateInit /\ [][ValidateNext]_vars

----------------------------------------------------------------------------
(* The HTTP session on one uploaded data set: solve requests, validation    *)
(* requests, and the manager's update_config and reset_round_constraints    *)

SessionRounds == {<<1, 2>>, <<2, 3>>}

\* one SKU, with or without a first-round allocation
SessionSheets(rs) ==
    LET S == {rs[i] : i \in 1..Len(rs)}
    IN  { << [demand |-> 4500, supply |-> 4000, wholesale |-> 200, sticks |-> 200,
              alloc |-> a, c |-> FALSE, c_class |-> "", by_price |-> FALSE,
              by_demand |-> FALSE] >> :
          a \in {[r \in S |-> 0], [r \in S |-> IF r = rs[1] THEN FixedVal ELSE 0]} }

\* the table: targets 0.4 and 0.05 box
SessionTable(rs) ==
    [r \in {rs[i] : i \in 1..Len(rs)} |->
        [upper_price_limit |-> 50050, lower_price_limit |-> 49950,
         total_quantity |-> IF r = rs[1] THEN 4000 ELSE 500]]

\* request configurations: with or without overrides for the first round
SessionConfigs(rs) ==
    [enable_demand_constraints : BOOLEAN,
     enable_volume_constraints : {TRUE},
     enable_price_constraints : {TRUE},
     enable_c_type_constraints : {TRUE},
     enable_balance_constraints : {TRUE},
     enable_demand_split_constraints : {TRUE},
     enable_demand_based_constraints : {TRUE},
     enable_price_based_constraints : {TRUE},
     volume_tolerance : {5},
     price_upper_limits : {NoMap, (rs[1] :> 50100)},
     price_lower_limits : {NoMap},
     volume_limits : {NoMap, (rs[1] :> 3500)}]

SessionObjectives ==
    [maximize_allocation_weight : {1000},
     round_balance_weight : {800},
     round_variance_weight : {400},
     product_balance_weight : {100},
     smooth_transition_weight : {300}]

\* the configurations handed to update_config
ConfigUpdates(rs) == {[volume_limits |-> (rs[1] :> 500)], [volume_tolerance |-> 10]}

\* upload_excel: the loaded data, a manager without configuration, no result
SessionInit ==
    /\ rounds \in SessionRounds
    /\ product_data \in SessionSheets(rounds)
    /\ sheet2 = SessionTable(rounds)
    /\ round_constraints = InitialConstraintsCache(rounds, sheet2)
    /\ constraint_manager = NewConstraintManager(round_constraints, NoConfig)
    /\ constraint_config = None
    /\ objective_config = None
    /\ lp_model = None
    /\ status = "NotRun"
    /\ var_values = None
    /\ call = "none"
    /\ error = "none"
    /\ result_data = None
    /\ raw = None
    /\ allocation_matrix = None
    /\ validation = None

\* add_demand_based_constraints reads the 按需 column of the sheet: on a sheet
\* without it the KeyError leaves solve
SolveRaises(cfg) ==
    /\ Get(cfg, "enable_demand_based_constraints", TRUE)
    /\ \E p \in Products : "by_demand" \notin DOMAIN product_data[p]

\* solve_allocation for the request configuration cfg and weights obj: the
\* overrides are written into the data loader's cache, a new manager and
\* allocator are built, the model is solved, the result is stored and, when
\* Optimal, the matrix is validated
SolveRequest(cfg, obj) ==
        LET rc == UpdateAllRoundConstraints(round_constraints, cfg)
            cm == NewConstraintManager(rc, cfg)
        IN  /\ ~SolveRaises(cfg)
            /\ round_constraints' = rc
            /\ constraint_manager' = cm
            /\ constraint_config' = cfg
            /\ objective_config' = obj
            /\ lp_model' = BuildModel(rc, cfg)
            /\ \/ \E x \in Candidates :
                     /\ Feasible(rc, x, cfg, obj)
                     /\ status' = "Optimal"
                     /\ var_values' = x
                     /\ raw' = ExtractRounded(x)
                     /\ allocation_matrix' = PostProcess(ExtractRounded(x))
                     /\ validation' =
                            ValidateAllConstraints(cm, PostProcess(ExtractRounded(x)))
               \/ /\ ProvablyInfeasible(rc, cfg)
                  /\ status' = "Infeasible"
                  /\ var_values' = None
                  /\ raw' = None
                  /\ allocation_matrix' = None
                  /\ validation' = None
            /\ error' = "none"
            /\ result_data' = product_data
            /\ UNCHANGED <<call, rounds, product_data, sheet2>>

\* solve_allocation when solve raises: the cache is updated and the session's
\* manager replaced before the exception, which the handler turns into
\* HTTP 500; allocator and last_result are not stored
SolveRequestFails(cfg) ==
        LET rc == UpdateAllRoundConstraints(round_constraints, cfg)
            cm == NewConstraintManager(rc, cfg)
        IN  /\ SolveRaises(cfg)
            /\ round_constraints' = rc
            /\ constraint_manager' = cm
            /\ error' = "HTTP500"
            /\ UNCHANGED <<result_data, call, rounds, product_data, sheet2, constraint_config,
                           objective_config, lp_model, status, var_values, raw,
                           allocation_matrix, validation>>

SolveAllocation ==
    \E cfg \in SessionConfigs(rounds), obj \in SessionObjectives : SolveRequest(cfg, obj)

\* get_constraints: the last matrix validated by the session's manager
GetConstraints ==
    /\ status = "Optimal"
    /\ validation' = ValidateAllConstraints(constraint_manager, allocation_matrix)
    /\ UNCHANGED <<error, result_data, call, rounds, product_data, sheet2, round_constraints,
                   constraint_manager, constraint_config, objective_config, lp_model,
                   status, var_values, raw, allocation_matrix>>

\* constraint_manager.update_config(new); the validation at hand was made
\* by the manager as it was
UpdateConfigCall ==
    /\ \E new \in ConfigUpdates(rounds) :
          constraint_manager' = UpdateConfig(constraint_manager, round_constraints, new)
    /\ validation' = None
    /\ UNCHANGED <<error, result_data, call, rounds, product_data, sheet2, round_constraints, constraint_config,
                   objective_config, lp_model, status, var_values, raw,
                   allocation_matrix>>

\* constraint_manager.reset_round_constraints()
ResetRoundConstraintsCall ==
    /\ constraint_manager' =
           ResetRoundConstraints(constraint_manager, round_constraints, NoConfig)
    /\ validation' = None
    /\ UNCHANGED <<error, result_data, call, rounds, product_data, sheet2, round_constraints, constraint_config,
                   objective_config, lp_model, status, var_values, raw,
                   allocation_matrix>>

SessionNext ==
    SolveAllocation \/ GetConstraints \/ UpdateConfigCall \/ ResetRoundConstraintsCall

SessionSpec == SessionInit /\ [][SessionNext]_vars

----------------------------------------------------------------------------
(* Properties of the matrix returned by solve *)

Returned == status = "Optimal"

\* the constraint manager solve_allocation builds for the configuration
SolveCM == NewConstraintManager(round_constraints, constraint_config)

\* C1: every fixed cell (p, r, v > 0) of the product table keeps its value in the
\* returned matrix: |A[p,r] - v| <= 0.001
C1_FixedCellsKept ==
    Returned =>
        \A p \in Products : \A r \in RoundSet :
            product_data[p].alloc[r] > 0 =>
                Abs(allocation_matrix[p][r] - product_data[p].alloc[r]) <= Slack

\* C2: every cell of the returned matrix is >= 0, whatever the enable flags
C2_CellsNonNegative ==
    Returned => \A p \in Products : \A r \in RoundSet : allocation_matrix[p][r] >= 0

\* C3: every row total of the returned matrix is <= demand + 0.001
C3_RowTotalWithinDemand ==
    Returned =>
        \A p \in Products : RowSum(allocation_matrix, p) <= product_data[p].demand + Slack

\* C4: the cell of the first round of the canonical order is
\* <= available supply + 0.001 in the returned matrix
C4_FirstRoundWithinSupply ==
    Returned =>
        \A p \in Products :
            allocation_matrix[p][rounds[1]] <= product_data[p].supply + Slack

\* C5: with volume constraints enabled, every column total of the returned matrix
\* lies within volume_target * (1 -/+ tau), slack 0.001
C5_VolumeWithinTolerance ==
    (Returned /\ Get(constraint_config, "enable_volume_constraints", TRUE)) =>
        \A r \in RoundSet :
            LET target == VolumeTarget(round_constraints, constraint_config, r)
                tol == VolumeTolerance(constraint_config)
            IN  /\ ColSum(allocation_matrix, r) + Slack >= VolLower(target, tol)
                /\ ColSum(allocation_matrix, r) - Slack <= VolUpper(target, tol)

\* the violations the validators of the hard families report on a matrix
HardViolations(M) ==
    [demand |-> ValidateDemand(SolveCM, M).violations,
     price |-> ValidatePrice(SolveCM, M).violations,
     volume |-> ValidateVolume(SolveCM, M).violations,
     fixed_allocation |-> ValidateFixed(SolveCM, M).violations,
     first_round_supply |-> ValidateFirstRoundSupply(SolveCM, M).violations,
     c_type |-> ValidateCType(SolveCM, M).violations]

\* C6: the hard-family validators report the same violations on the raw
\* (rounded) solver matrix and on the post-processed matrix
C6_RevalidationSame ==
    Returned => HardViolations(raw) = HardViolations(allocation_matrix)

----------------------------------------------------------------------------
(* Properties of validate_all_constraints *)

Validated == ~IsNone(validation)

\* the flag of constraint_config that enables a family; "" for the two
\* families no flag disables
FlagOf(n) ==
    CASE n = "demand" -> "enable_demand_constraints"
      [] n = "price" -> "enable_price_constraints"
      [] n = "volume" -> "enable_volume_constraints"
      [] n = "demand_based_priority" -> "enable_demand_based_constraints"
      [] n = "price_based" -> "enable_price_based_constraints"
      [] n = "c_type" -> "enable_c_type_constraints"
      [] OTHER -> ""

FamilyEnabled(n) ==
    FlagOf(n) = "" \/ Get(constraint_manager.constraint_config, FlagOf(n), TRUE)

EnabledFamilies == {n \in SeqToSet(AllConstraintNames) : FamilyEnabled(n)}

\* C9: overall_valid is true exactly when every enabled family's validator
\* reports is_valid (a validator that raised reports not valid); the skipped
\* list holds exactly the families whose flag is false, is disjoint from the
\* enabled list, and the two together are the eight family names
C9_OverallValidIsConjunction ==
    Validated =>
        LET skipped == SeqToSet(validation.skipped_constraints)
            enabled == SeqToSet(validation.enabled_constraints)
        IN  /\ enabled = EnabledFamilies
            /\ DOMAIN validation.constraint_results = EnabledFamilies
            /\ validation.overall_valid =
                   (\A n \in EnabledFamilies : validation.constraint_results[n].is_valid)
            /\ \A n \in EnabledFamilies :
                   validation.constraint_results[n].raised =>
                       ~validation.constraint_results[n].is_valid
            /\ skipped = {n \in SeqToSet(AllConstraintNames) : ~FamilyEnabled(n)}
            /\ skipped \cap enabled = {}
            /\ skipped \cup enabled = SeqToSet(AllConstraintNames)

\* a validation with a skipped family whose only failing validator raised
C9_Witness ==
    /\ Validated
    /\ validation.skipped_constraints # <<>>
    /\ ~validation.overall_valid
    /\ \E n \in DOMAIN validation.constraint_results :
          /\ validation.constraint_results[n].raised
          /\ \A m \in DOMAIN validation.constraint_results \ {n} :
                 validation.constraint_results[m].is_valid

\* the three families C10 names
AlwaysOnFamilies == {"demand", "fixed_allocation", "first_round_supply"}

\* C10: for every configuration of the flags, the demand, fixed-cell and
\* first-round-supply validators are run and none of them is in the skipped list
C10_ThreeFamiliesAlwaysRun ==
    Validated =>
        \A n \in AlwaysOnFamilies :
            /\ n \in DOMAIN validation.constraint_results
            /\ n \notin SeqToSet(validation.skipped_constraints)

\* C10 (amended): the fixed-cell and first-round-supply validators are run and
\* never skipped; the demand validator is run exactly when
\* enable_demand_constraints is on, and is in the skipped list otherwise
C10_FixedAndSupplyAlwaysRun ==
    Validated =>
        /\ \A n \in {"fixed_allocation", "first_round_supply"} :
               /\ n \in DOMAIN validation.constraint_results
               /\ n \notin SeqToSet(validation.skipped_constraints)
        /\ ("demand" \in DOMAIN validation.constraint_results)
               = Get(constraint_manager.constraint_config, "enable_demand_constraints", TRUE)
        /\ ("demand" \in SeqToSet(validation.skipped_constraints))
               = ~Get(constraint_manager.constraint_config, "enable_demand_constraints", TRUE)

\* a validation under enable_demand_constraints = false: demand skipped, the
\* other two families run
C10_Witness ==
    /\ Validated
    /\ ~Get(constraint_manager.constraint_config, "enable_demand_constraints", TRUE)
    /\ "demand" \in SeqToSet(validation.skipped_constraints)
    /\ "fixed_allocation" \in DOMAIN validation.constraint_results
    /\ "first_round_supply" \in DOMAIN validation.constraint_results

----------------------------------------------------------------------------
(* Properties of the overrides in a session *)

Solved == status # "NotRun"

\* C7: a solve whose configuration has no override for round r uses the values
\* of the round-constraint table for r, whatever the earlier solves supplied
C7_NoOverrideUsesTable ==
    Solved =>
        \A r \in RoundSet :
            /\ (r \in DOMAIN lp_model.volume
                  /\ ~HasOverride(constraint_config, "volume_limits", r)) =>
                   lp_model.volume[r] =
                       [upper_limit |-> VolUpper(sheet2[r].total_quantity,
                                                 VolumeTolerance(constraint_config)),
                        lower_limit |-> VolLower(sheet2[r].total_quantity,
                                                 VolumeTolerance(constraint_config))]
            /\ (r \in DOMAIN lp_model.price
                  /\ ~HasOverride(constraint_config, "price_upper_limits", r)) =>
                   lp_model.price[r].upper_price_limit = sheet2[r].upper_price_limit
            /\ (r \in DOMAIN lp_model.price
                  /\ ~HasOverride(constraint_config, "price_lower_limits", r)) =>
                   lp_model.price[r].lower_price_limit = sheet2[r].lower_price_limit

\* the volume violations validate_volume_constraints reported for round r
ReportedVolume(r) ==
    {v \in validation.constraint_results["volume"].violations : v.round = r}

\* C8: with volume_limits[r] = v in the configuration, the allocator's volume
\* rows of round r are v*(1-tau) and v*(1+tau), and validate_volume_constraints
\* checks the column total of r against these bounds, also after update_config
\* or reset_round_constraints
C8_VolumeOverrideIsTarget ==
    /\ Solved =>
         \A r \in DOMAIN lp_model.volume :
             HasOverride(constraint_config, "volume_limits", r) =>
                 lp_model.volume[r] =
                     [upper_limit |-> VolUpper(constraint_config.volume_limits[r],
                                               VolumeTolerance(constraint_config)),
                      lower_limit |-> VolLower(constraint_config.volume_limits[r],
                                               VolumeTolerance(constraint_config))]
    /\ (Validated /\ "volume" \in DOMAIN validation.constraint_results) =>
         \A r \in RoundSet :
             HasOverride(constraint_manager.constraint_config, "volume_limits", r) =>
                 LET v == constraint_manager.constraint_config.volume_limits[r]
                     tau == VolumeTolerance(constraint_manager.constraint_config)
                     outside == \/ ColSum(allocation_matrix, r) - Slack > VolUpper(v, tau)
                                \/ ColSum(allocation_matrix, r) + Slack < VolLower(v, tau)
                 IN  /\ (ReportedVolume(r) # {}) = outside
                     /\ \A viol \in ReportedVolume(r) :
                            /\ viol.target_volume = v
                            /\ viol.upper_limit = VolUpper(v, tau)
                            /\ viol.lower_limit = VolLower(v, tau)

\* a matrix validated by a manager whose configuration overrides the target of
\* a round while its own per-round record and the table hold other values, and
\* a solve whose configuration overrides the table's target
C8_Witness ==
    /\ status = "Optimal"
    /\ Validated
    /\ "volume" \in DOMAIN validation.constraint_results
    /\ \E r \in RoundSet :
          /\ HasOverride(constraint_manager.constraint_config, "volume_limits", r)
          /\ constraint_manager.constraint_config.volume_limits[r]
                 # constraint_manager.round_constraints[r].total_target
          /\ ReportedVolume(r) # {}
          /\ HasOverride(constraint_config, "volume_limits", r)
          /\ constraint_config.volume_limits[r] # sheet2[r].total_quantity

----------------------------------------------------------------------------
(* Properties of the outcome of solve *)

\* every unit box price lies above the price upper bound of every round while
\* the demand of some SKU must be met: no allocation satisfies the enabled
\* price and demand families
PriceExcludesEveryAllocation ==
    /\ Get(constraint_config, "enable_price_constraints", TRUE)
    /\ Get(constraint_config, "enable_demand_constraints", TRUE)
    /\ \E p \in Products : product_data[p].demand > 0
    /\ \A p \in Products : \A r \in RoundSet :
           UnitBoxPrice(p) > PriceUpper(round_constraints, constraint_config, r)

\* C11: when no allocation satisfies the enabled hard constraints, a completed
\* solve reports Infeasible and returns no matrix, never Optimal with a matrix
C11_InfeasibleReported ==
    (status \in {"Optimal", "Infeasible"} /\ PriceExcludesEveryAllocation) =>
        (status = "Infeasible" /\ IsNone(allocation_matrix))

----------------------------------------------------------------------------
(* Properties of the allocation-strategy and C-type families                *)

\* C13: with the demand-split family enabled, in every returned matrix a SKU
\* with positive demand and no fixed cell is allocated in at most two rounds
\* when its demand is at most 100 boxes, and in at least two rounds when its
\* demand is above 100 and at most 250 boxes
C13_SplitRoundsOnMatrix ==
    (Returned /\ Get(constraint_config, "enable_demand_split_constraints", TRUE)) =>
        \A p \in Products :
            (product_data[p].demand > 0 /\ ~IsExisting(p)) =>
                /\ product_data[p].demand <= 100 * Box
                       => RoundsUsed(allocation_matrix, p) <= 2
                /\ (product_data[p].demand > 100 * Box
                      /\ product_data[p].demand <= 250 * Box)
                       => RoundsUsed(allocation_matrix, p) >= 2

\* C14: with the price-priority family enabled, in every returned matrix and
\* every round with an allocated SKU the allocated price-priority SKUs are at
\* least price_based_ratio of the allocated SKUs, and
\* validate_price_based_constraints reports no violation
C14_PricePriorityShare ==
    (Returned /\ Get(constraint_config, "enable_price_based_constraints", TRUE)) =>
        /\ \A r \in RoundSet :
               Cardinality({p \in Products : allocation_matrix[p][r] > 0}) > 0 =>
                   Cardinality({p \in PriceBasedIndices : allocation_matrix[p][r] > 0}) * 100
                       >= Get(constraint_config, "price_based_ratio", 30)
                            * Cardinality({p \in Products : allocation_matrix[p][r] > 0})
        /\ ValidatePriceBased(SolveCM, allocation_matrix).violations = {}

\* the total of the SKUs in S is within pct percent of the total of the SKUs
\* in T in round r of matrix M, and within limit boxes, with slack 0.001
WithinShare(M, S, T, r, pct, limit) ==
    /\ SumOver(M, S, r) * 100 <= pct * SumOver(M, T, r) + 100 * Slack
    /\ SumOver(M, S, r) <= limit * Box + Slack

\* C15: with the C-type family enabled, in every returned matrix and every
\* round the C-type total is within c_type_ratio of the round total and within
\* c_type_volume_limit, and the totals of the 长 and 细 subtypes are within
\* their ratios of the C-type total and within their volume limits
C15_CTypeShares ==
    (Returned /\ Get(constraint_config, "enable_c_type_constraints", TRUE)) =>
        \A r \in RoundSet :
            /\ WithinShare(allocation_matrix, CTypeIndices, Products, r,
                           Get(constraint_config, "c_type_ratio", 40),
                           Get(constraint_config, "c_type_volume_limit", 4900))
            /\ WithinShare(allocation_matrix, SubtypeIndices("chang"), CTypeIndices, r,
                           Get(constraint_config, "chang_type_ratio", 20),
                           Get(constraint_config, "chang_type_volume_limit", 1000))
            /\ WithinShare(allocation_matrix, SubtypeIndices("xi"), CTypeIndices, r,
                           Get(constraint_config, "xi_type_ratio", 60),
                           Get(constraint_config, "xi_type_volume_limit", 3000))

\* the 方 SKUs the single-round rows are built for
NonExistingFang == {p \in SubtypeIndices("fang") : ~IsExisting(p)}

----------------------------------------------------------------------------
(* The single-SKU, single-round data set under the default configuration    *)

\* one SKU (demand 100, wholesale 200, 200 sticks, supply >= 100, no fixed
\* cell) and one round (price 49950..50050, target 100)
SingleSkuSingleRound ==
    /\ Len(rounds) = 1
    /\ Len(product_data) = 1
    /\ product_data[1].demand = 100 * Box
    /\ product_data[1].wholesale = 200
    /\ product_data[1].sticks = 200
    /\ product_data[1].supply >= 100 * Box
    /\ ~IsExisting(1)
    /\ round_constraints[rounds[1]].upper_price_limit = 50050
    /\ round_constraints[rounds[1]].lower_price_limit = 49950
    /\ round_constraints[rounds[1]].total_quantity = 100 * Box

\* every enable_* flag at its default (true), tolerance 0.005, default weights
DefaultConfiguration ==
    /\ \A k \in {"enable_demand_constraints", "enable_volume_constraints",
                 "enable_price_constraints", "enable_c_type_constraints",
                 "enable_balance_constraints", "enable_demand_split_constraints",
                 "enable_demand_based_constraints", "enable_price_based_constraints"} :
           Get(constraint_config, k, TRUE)
    /\ Get(constraint_config, "volume_tolerance", 5) = 5
    /\ objective_config = [maximize_allocation_weight |-> 1000,
                           round_balance_weight |-> 800,
                           round_variance_weight |-> 400,
                           product_balance_weight |-> 100,
                           smooth_transition_weight |-> 300]

----------------------------------------------------------------------------
(* Properties of the post-processing methods                                *)

\* the coalescing of a row in decimal arithmetic
CoalesceRowDecimal(row) ==
    LET small == {r \in RoundSet : 0 < row[r] /\ row[r] < MinThreshold}
        large == {r \in RoundSet : row[r] >= MinThreshold}
        total_small == SumSeq([i \in 1..Len(rounds) |->
                                  IF rounds[i] \in small THEN row[rounds[i]] ELSE 0])
    IN  IF small # {} /\ large # {}
        THEN [r \in RoundSet |->
                IF r = FirstMax(row, large) THEN row[r] + total_small
                ELSE IF r \in small THEN 0 ELSE row[r]]
        ELSE IF small # {} /\ total_small >= MinThreshold
        THEN [r \in RoundSet |->
                IF r = FirstOf(small) THEN total_small
                ELSE IF r \in small THEN 0 ELSE row[r]]
        ELSE [r \in RoundSet |-> IF r \in small THEN 0 ELSE row[r]]

\* C19: _handle_small_allocations maps every row to the reference result: with
\* a value >= 0.1 in the row the positive values < 0.1 become 0 and their sum
\* is added to the round of the largest value; with positive values all < 0.1
\* their sum is placed in the first such round when it is >= 0.1 and all are
\* zeroed otherwise; rows without a value in (0, 0.1) are unchanged
C19_CoalescingIsReference ==
    call = "_handle_small_allocations" =>
        \A p \in Products : allocation_matrix[p] = CoalesceRowDecimal(raw[p])

\* demand - sum_r A[p,r] of a row
Residue(p, row) ==
    product_data[p].demand - SumSeq([i \in 1..Len(rounds) |-> row[rounds[i]]])

\* the row with its residue added to the round of the largest positive value,
\* or to the first round when no value is positive
WithResidue(p, row) ==
    LET positive == {r \in RoundSet : row[r] > 0}
        target == IF positive # {} THEN FirstMax(row, positive) ELSE rounds[1]
    IN  [r \in RoundSet |-> IF r = target THEN row[r] + Residue(p, row) ELSE row[r]]

\* C20: _handle_tiny_unallocated_demand changes a row only when its residue
\* lies in (0, 0.01], and then adds the residue to the round of the largest
\* positive value, or to the first round when the row has none; rows with
\* residue 0, negative or above 0.01 are unchanged
C20_AbsorptionOnlyOfTinyResidue ==
    call = "_handle_tiny_unallocated_demand" =>
        \A p \in Products :
            IF 0 < Residue(p, raw[p]) /\ Residue(p, raw[p]) <= TinyThreshold
            THEN allocation_matrix[p] = WithResidue(p, raw[p])
            ELSE allocation_matrix[p] = raw[p]

----------------------------------------------------------------------------
(* Properties of the minimiser                                              *)

\* C17: for one 按需 SKU of 100 boxes on five rounds, with the 按需 family
\* enabled and the volume, demand-split, price-priority families off, under the
\* default weights the matrix returned at Optimal holds the whole demand in the
\* first two rounds and 0 in the three later rounds
C17_DemandInFirstTwoRounds ==
    (Returned /\ Len(rounds) = 5 /\ DemandBasedIndices = {1}
       /\ Get(constraint_config, "enable_demand_based_constraints", TRUE)
       /\ objective_config = DefaultWeights) =>
        /\ allocation_matrix[1][rounds[1]] + allocation_matrix[1][rounds[2]] = 100 * Box
        /\ \A i \in 3..5 : allocation_matrix[1][rounds[i]] = 0

----------------------------------------------------------------------------
(* Properties of solve on inconsistent data                                 *)

\* a SKU whose fixed cells add up to more than its demand, or whose fixed
\* first-round cell is above its available supply
InconsistentFixedCells ==
    \E p \in Products :
        \/ SumSeq([i \in 1..Len(rounds) |->
                     IF IsFixedVar(p, rounds[i]) THEN product_data[p].alloc[rounds[i]] ELSE 0])
              > product_data[p].demand
        \/ /\ IsFixedVar(p, rounds[1])
           /\ product_data[p].alloc[rounds[1]] > product_data[p].supply

\* C21: on data whose fixed cells are inconsistent (their sum exceeds the
\* demand, or the fixed first-round value exceeds the supply) solve ends with
\* a ModelError outcome and no matrix, never with Optimal and a matrix
C21_InconsistentFixedRejected ==
    (status # "NotRun" /\ InconsistentFixedCells) =>
        (status = "ModelError" /\ IsNone(allocation_matrix))

----------------------------------------------------------------------------
(* DataLoader.load_data on an uploaded workbook: the round-like columns of  *)
(* Sheet1 (labels 第n轮 written as their numeral; 7 and 8 stand for 第七轮     *)
(* and 第八轮, which cn_num_map does not hold) and the columns of Sheet2       *)

\* the round-like column labels a workbook may carry
LoadLabels == {1, 2, 7, 8}

\* cn_num_map.get(x[1], 0)
CnNum(n) == IF n \in 1..6 THEN n ELSE 0

\* sorted(list(set(cols)), key=cn_num_map.get(x[1], 0)): the orders a stable
\* sort of a set can leave, labels of equal key in the set's iteration order
SortedByCnNum(cols) ==
    {s \in [1..Cardinality(cols) -> cols] :
        /\ \A i, j \in DOMAIN s : i < j => s[i] # s[j] /\ CnNum(s[i]) <= CnNum(s[j])}

\* _detect_rounds: the sorted round-like columns, 第一轮..第五轮 when none
DetectRounds(cols) ==
    IF cols = {} THEN {<<1, 2, 3, 4, 5>>} ELSE SortedByCnNum(cols)

\* _validate_data: every detected round is a column of Sheet1 and of Sheet2
\* (the other required columns and rows are present in the workbooks here)
ValidateData(rs, cols1, cols2) ==
    \A i \in 1..Len(rs) : rs[i] \in cols1 /\ rs[i] \in cols2

\* one SKU with an empty cell in every round-like column
LoadSheet(cols) ==
    << [demand |-> 4500, supply |-> 4000, wholesale |-> 200, sticks |-> 200,
        alloc |-> [r \in cols |-> 0], c |-> FALSE, c_class |-> "", by_price |-> FALSE,
        by_demand |-> FALSE] >>

LoadTable(cols) ==
    [r \in cols |-> [upper_price_limit |-> 50050, lower_price_limit |-> 49950,
                     total_quantity |-> 4000]]

\* DataLoader(file_path) before load_data: the workbook read, nothing detected
LoadInit ==
    /\ \E cols1 \in SUBSET LoadLabels : product_data = LoadSheet(cols1)
    /\ \E cols2 \in SUBSET LoadLabels : sheet2 = LoadTable(cols2)
    /\ rounds = <<>>
    /\ round_constraints = None
    /\ constraint_manager = None
    /\ constraint_config = None
    /\ objective_config = None
    /\ lp_model = None
    /\ status = "NotRun"
    /\ var_values = None
    /\ call = "none"
    /\ error = "none"
    /\ result_data = None
    /\ raw = None
    /\ allocation_matrix = None
    /\ validation = None

\* load_data returns: rounds detected, validated, the cache initialised
LoadData ==
    /\ rounds = <<>> /\ error = "none"
    /\ \E rs \in DetectRounds(DOMAIN product_data[1].alloc) :
          /\ ValidateData(rs, DOMAIN product_data[1].alloc, DOMAIN sheet2)
          /\ rounds' = rs
          /\ round_constraints' = InitialConstraintsCache(rs, sheet2)
    /\ UNCHANGED <<error, result_data, call, product_data, sheet2, constraint_manager,
                   constraint_config, objective_config, lp_model, status, var_values,
                   raw, allocation_matrix, validation>>

\* load_data raises the ValueError of _validate_data
LoadDataFails ==
    /\ rounds = <<>> /\ error = "none"
    /\ \E rs \in DetectRounds(DOMAIN product_data[1].alloc) :
          ~ValidateData(rs, DOMAIN product_data[1].alloc, DOMAIN sheet2)
    /\ error' = "ValueError"
    /\ UNCHANGED <<result_data, call, rounds, product_data, sheet2, round_constraints,
                   constraint_manager, constraint_config, objective_config, lp_model,
                   status, var_values, raw, allocation_matrix, validation>>

LoadNext == LoadData \/ LoadDataFails

LoadSpec == LoadInit /\ [][LoadNext]_vars

----------------------------------------------------------------------------
(* Properties of load_data                                                  *)

\* C22: a workbook with a round-like column whose numeral is not one of
\* 一..六 is not loaded: after load_data returns, every label of rounds is a
\* recognised one and the labels stand in strictly increasing rank
C22_OnlyRecognisedRounds ==
    rounds # <<>> =>
        /\ \A i \in 1..Len(rounds) : rounds[i] \in 1..6
        /\ \A i, j \in 1..Len(rounds) : i < j => CnNum(rounds[i]) < CnNum(rounds[j])

----------------------------------------------------------------------------
(* Properties of the session's constraint manager                           *)

\* C23: after update_config(C) the manager's cached round_constraints are the
\* values of the data loader merged with the per-round overrides of its
\* configuration, as in a manager newly constructed on the same data loader
\* with that configuration
C23_UpdateConfigAsNewManager ==
    [][UpdateConfigCall =>
          constraint_manager'.round_constraints =
              NewConstraintManager(round_constraints,
                                   constraint_manager'.constraint_config).round_constraints]_vars

----------------------------------------------------------------------------
(* Properties of the objective function                                     *)

\* C24: whether an allocation x is feasible does not depend on the objective
\* weights: under the data and the configuration of the solve, every weight
\* configuration gives the feasible set of the one the request carried
C24_FeasibleSetIgnoresWeights ==
    status # "NotRun" =>
        \A x \in FamilyCandidates : \A obj \in ObjectiveConfigs :
            Feasible(round_constraints, x, constraint_config, obj)
                <=> Feasible(round_constraints, x, constraint_config, objective_config)

\* every weight of the objective_config given or 0
ObjectiveWeights ==
    [maximize_allocation_weight : {0, 1000},
     round_balance_weight : {0, 800},
     round_variance_weight : {0, 400},
     product_balance_weight : {0, 100},
     smooth_transition_weight : {0, 300}]

\* one SKU of 100 boxes on two rounds
ObjectiveSheets ==
    { [rounds |-> <<1, 2>>,
       product_data |-> <<Sku(<<1, 2>>, 100 * Box, supply, FALSE, "", FALSE)>>,
       sheet2 |-> TargetTable(<<1, 2>>, <<50 * Box, 50 * Box>>)] :
      supply \in {100 * Box, 200 * Box} }

ObjectiveInit ==
    /\ \E sh \in ObjectiveSheets :
          /\ rounds = sh.rounds
          /\ product_data = sh.product_data
          /\ sheet2 = sh.sheet2
    /\ round_constraints = InitialConstraintsCache(rounds, sheet2)
    /\ constraint_manager = None
    /\ constraint_config = None
    /\ objective_config = None
    /\ lp_model = None
    /\ status = "NotRun"
    /\ var_values = None
    /\ call = "none"
    /\ error = "none"
    /\ result_data = None
    /\ raw = None
    /\ allocation_matrix = None
    /\ validation = None

\* solve with the objective create_objective_function builds for the
\* request's objective_config, status Optimal
SolveWeighted ==
    /\ status = "NotRun"
    /\ \E cfg \in OptimumConfigs, obj \in ObjectiveWeights :
       \E x \in Minimisers(cfg, obj) :
          /\ constraint_config' = cfg
          /\ objective_config' = obj
          /\ lp_model' = BuildModel(round_constraints, cfg)
          /\ status' = "Optimal"
          /\ var_values' = x
          /\ raw' = ExtractRounded(x)
          /\ allocation_matrix' = PostProcess(ExtractRounded(x))
    /\ UNCHANGED <<error, result_data, call, rounds, product_data, sheet2, round_constraints,
                   constraint_manager, validation>>

ObjectiveNext == SolveWeighted

ObjectiveSpec == ObjectiveInit /\ [][ObjectiveNext]_vars

\* the term of the objective a weight stands before
TermOf(x, obj, k) ==
    CASE k = "maximize_allocation_weight" -> TotalTerm(x, obj)
      [] k = "round_balance_weight" -> RoundBalanceTerm(x, obj)
      [] k = "round_variance_weight" -> RoundVarianceTerm(x, obj)
      [] k = "product_balance_weight" -> ProductBalanceTerm(x, obj)
      [] k = "smooth_transition_weight" -> SmoothTransitionTerm(x, obj)

\* C25: with two or more rounds every term whose weight is positive is part
\* of the objective whatever the other weights are: the objective of the
\* request is the objective with that weight at 0 plus the term, at every
\* allocation
C25_EveryWeightedTermContributes ==
    (status = "Optimal" /\ Len(rounds) >= 2) =>
        \A k \in DOMAIN objective_config :
            objective_config[k] > 0 =>
                \A x \in OptimumCandidates :
                    Objective(x, constraint_config, objective_config)
                        = Objective(x, constraint_config, [objective_config EXCEPT ![k] = 0])
                            + TermOf(x, objective_config, k)

----------------------------------------------------------------------------
(* The session on a workbook whose table holds text in a 总量 cell           *)

\* the table of the session with the 总量 cell of the rounds of S holding text
TextTable(rs, S) ==
    [r \in {rs[i] : i \in 1..Len(rs)} |->
        IF r \in S
        THEN [upper_price_limit |-> 50050, lower_price_limit |-> 49950]
        ELSE SessionTable(rs)[r]]

\* upload_excel: load_data, then a manager without configuration
TableInit ==
    /\ rounds = <<1, 2>>
    /\ product_data \in SessionSheets(rounds)
    /\ sheet2 \in {TextTable(rounds, S) : S \in {{}, {1}, {2}}}
    /\ round_constraints = InitialConstraintsCache(rounds, sheet2)
    /\ constraint_manager = NewConstraintManager(round_constraints, NoConfig)
    /\ constraint_config = None
    /\ objective_config = None
    /\ lp_model = None
    /\ status = "NotRun"
    /\ var_values = None
    /\ call = "none"
    /\ error = "none"
    /\ result_data = None
    /\ raw = None
    /\ allocation_matrix = None
    /\ validation = None

TableSpec == TableInit /\ [][SessionNext]_vars

\* C26: a round whose constraint record cannot be read is neither left out
\* of a model that was built and solved with the volume or the price family
\* enabled (the solve request fails instead) nor dropped from the cache of
\* the session's constraint manager
C26_UnreadableRecordSurfaced ==
    \A r \in RoundSet :
        ~Readable(sheet2[r]) =>
            /\ r \in DOMAIN constraint_manager.round_constraints
            /\ (status # "NotRun" /\ error = "none") =>
                   /\ Get(constraint_config, "enable_volume_constraints", TRUE)
                          => r \in DOMAIN lp_model.volume
                   /\ Get(constraint_config, "enable_price_constraints", TRUE)
                          => r \in DOMAIN lp_model.price

----------------------------------------------------------------------------
(* Properties of the first round                                            *)

\* C27: for every set of round labels the round that
\* validate_first_round_supply_constraints checks is rounds[0] of the
\* canonical order, and it is the round whose variables create_variables caps
\* by the available supply
C27_OneFirstRound ==
    Validated =>
        /\ MinRoundLabel = rounds[1]
        /\ \A r \in RoundSet : CappedBySupply(r) <=> r = MinRoundLabel

----------------------------------------------------------------------------
(* Properties of the 方 concentration in the validator                       *)

\* the cells of the 方 SKUs that are not fixed are positive in one round at
\* most, and every fixed cell of a 方 SKU holds its sheet value
FangConcentrated(M) ==
    LET fang == SubtypeIndices("fang")
    IN  /\ \E chosen \in RoundSet : \A p \in fang : \A r \in RoundSet :
               (~IsFixedVar(p, r) /\ r # chosen) => M[p][r] = 0
        /\ \A p \in fang : \A r \in RoundSet :
               IsFixedVar(p, r) => M[p][r] = product_data[p].alloc[r]

\* C30: for every matrix whose non-fixed 方 cells lie in a single round and
\* whose fixed cells keep their values, validate_c_type_constraints reports
\* no 方 concentration violation, wherever the fixed 方 cells lie
C30_ValidatorFangAsModel ==
    (Validated /\ "c_type" \in DOMAIN validation.constraint_results
               /\ FangConcentrated(allocation_matrix)) =>
        <<"fang_rounds", 0>> \notin validation.constraint_results["c_type"].violations

----------------------------------------------------------------------------
(* The HTTP session over several uploads, with solve requests that fail     *)

\* the uploaded workbooks, all on 第一轮 and 第二轮: the session's sheet, the
\* same sheet without the 按需 column, and a sheet with another 需求
UploadWorkbooks ==
    LET sku == [demand |-> 4500, supply |-> 4000, wholesale |-> 200, sticks |-> 200,
                alloc |-> [r \in {1, 2} |-> 0], c |-> FALSE, c_class |-> "",
                by_price |-> FALSE]
    IN  { << [f \in DOMAIN sku \cup {"by_demand"} |->
                 IF f = "by_demand" THEN FALSE ELSE sku[f]] >>,
          << sku >>,
          << [f \in DOMAIN sku \cup {"by_demand"} |->
                 IF f = "by_demand" THEN FALSE
                 ELSE IF f = "demand" THEN 4000 ELSE sku[f]] >> }

\* request configurations: the 按需 family on or off, with or without a
\* volume override for the first round
UploadConfigs(rs) ==
    [enable_demand_constraints : BOOLEAN,
     enable_volume_constraints : {TRUE},
     enable_price_constraints : {TRUE},
     enable_c_type_constraints : {TRUE},
     enable_balance_constraints : {TRUE},
     enable_demand_split_constraints : {TRUE},
     enable_demand_based_constraints : BOOLEAN,
     enable_price_based_constraints : {TRUE},
     volume_tolerance : {5},
     price_upper_limits : {NoMap},
     price_lower_limits : {NoMap},
     volume_limits : {NoMap, (rs[1] :> 3500)}]

\* the session after the first upload_excel
UploadInit ==
    /\ rounds = <<1, 2>>
    /\ product_data \in UploadWorkbooks
    /\ sheet2 = SessionTable(rounds)
    /\ round_constraints = InitialConstraintsCache(rounds, sheet2)
    /\ constraint_manager = NewConstraintManager(round_constraints, NoConfig)
    /\ constraint_config = None
    /\ objective_config = None
    /\ lp_model = None
    /\ status = "NotRun"
    /\ var_values = None
    /\ call = "none"
    /\ error = "none"
    /\ result_data = None
    /\ raw = None
    /\ allocation_matrix = None
    /\ validation = None

\* upload_excel: a new DataLoader and a new ConstraintManager replace the
\* session's; allocator and last_result are left as they are
UploadExcel ==
    /\ \E wb \in UploadWorkbooks : product_data' = wb
    /\ round_constraints' = InitialConstraintsCache(rounds, sheet2)
    /\ constraint_manager' =
           NewConstraintManager(InitialConstraintsCache(rounds, sheet2), NoConfig)
    /\ error' = "none"
    /\ UNCHANGED <<result_data, call, rounds, sheet2, constraint_config, objective_config,
                   lp_model, status, var_values, raw, allocation_matrix, validation>>

\* a solve request that returns
UploadSolve ==
    \E cfg \in UploadConfigs(rounds), obj \in SessionObjectives : SolveRequest(cfg, obj)

\* a solve request that ends in HTTP 500
UploadSolveFails ==
    \E cfg \in UploadConfigs(rounds) : SolveRequestFails(cfg)

UploadNext == UploadExcel \/ UploadSolve \/ UploadSolveFails \/ GetConstraints

UploadSpec == UploadInit /\ [][UploadNext]_vars

----------------------------------------------------------------------------
(* Properties of the session over uploads and failed requests               *)

\* C28: in every state of the session the matrix held in last_result was
\* solved on the data set the data loader holds: no endpoint can combine a
\* matrix of an earlier upload with the product data or the manager of the
\* current one
C28_ResultOfCurrentData ==
    ~IsNone(allocation_matrix) => result_data = product_data

\* C29: a solve request that fails leaves the data loader's cache, the
\* session's constraint manager and last_result as they were
C29_FailedSolveChangesNothing ==
    [][UploadSolveFails =>
          UNCHANGED <<round_constraints, constraint_manager, status, allocation_matrix>>]_vars
====
